---------------------------- MODULE Spec2Model ----------------------------
(***************************************************************************)
(* Calculation engine of the coliving simulator: blended nightly rate,     *)
(* annual revenue aggregation and constant-annuity loan amortization.      *)
(*                                                                         *)
(* Numbers.  The Python code computes in binary floating point.  The model *)
(* computes in exact rational arithmetic: a number is a record             *)
(* [n |-> numerator, d |-> denominator] in lowest terms with d > 0.  The   *)
(* rounding of the floating-point unit is therefore abstracted away: an    *)
(* equality of the model is an equality of the real-number values the      *)
(* floats approximate.  A denominator of 0 stands for a raised             *)
(* ZeroDivisionError; it propagates through every later operation, as the  *)
(* exception propagates through the rest of the Python function.           *)
(***************************************************************************)
EXTENDS Integers, Sequences, FiniteSets, TLC

VARIABLES
    sp,            \* the SeasonPricing object equivalent_nightly_rate is called on
    sp_call,       \* that call: [done, rate, divisors]
    room_types,    \* argument of simulate_annual_revenue: ordered dict name -> RoomType
    seasons,       \* argument of simulate_annual_revenue: list of Season
    results,       \* its local `results`: [per_season, total_revenue]
    season_idx,    \* number of iterations of `for season in seasons` completed
    rev_pc,        \* position in simulate_annual_revenue: "idle", "loop", "returned"
    debt_amount,   \* arguments of build_amortization_schedule
    annual_rate,
    years,
    annual_payment,\* its locals
    remaining,
    year,
    schedule,
    am_pc,         \* position in build_amortization_schedule:
                   \* "idle", "called", "loop", "returned"
    horizon_years, \* main: the projection horizon
    proj_year,     \* main: the last projection year whose debt figures were read
    debt_t,        \* main: interest_t, principal_t, remaining_debt_t, debt_service_t
    cashflows,     \* argument of compute_irr
    low,           \* its locals
    high,
    mid,
    npv,
    irr_iter,      \* number of NPV evaluations made by the `for _ in range(max_iter)` loop
    irr_pc,        \* position in compute_irr: "idle", "called", "loop", "returned"
    irr_ret,       \* its return value: [none, rate]
    main_inputs,   \* main: the sidebar inputs (total_investment, debt_ratio, ...)
    main_room_types, \* main: room_types
    seasons_base_config, \* main: ordered dict season name -> [days, occupancy_base, pricing_base]
    scenario_params, \* main: ordered dict scenario name -> [occ_factor, price_factor, cost_factor]
    run,           \* main, locals set before the scenario loop: debt_amount, equity_amount,
                   \* amort_schedule, amortizable_base, annual_depreciation
    scenario_idx,  \* number of iterations of `for scenario_name, params in ...` completed
    scen,          \* locals of the current iteration of the scenario loop
    scenario_results,   \* main: the three result dicts
    scenario_cashflows,
    scenario_dscr,
    main_pc,       \* position in main: "idle", "scenarios", "charges", "years", "done"
    launches,      \* number of times the launch button was pressed
    previous_outputs, \* the three result dicts as the previous launch left them
    base_cfg,      \* load_config_from_excel: the dict of get_default_config()
    cfg,           \* load_config_from_excel: the dict read from the Excel file
    final_cfg,     \* load_config_from_excel: its return value
    cfg_pc         \* position in load_config_from_excel: "idle", "loaded", "returned"

pricing_vars == <<sp, sp_call>>
revenue_vars == <<room_types, seasons, results, season_idx, rev_pc>>
amort_vars   == <<debt_amount, annual_rate, years, annual_payment, remaining,
                  year, schedule, am_pc, horizon_years, proj_year, debt_t>>
irr_vars     == <<cashflows, low, high, mid, npv, irr_iter, irr_pc, irr_ret>>
main_vars    == <<main_inputs, main_room_types, seasons_base_config, scenario_params,
                  run, scenario_idx, scen, scenario_results, scenario_cashflows,
                  scenario_dscr, main_pc, launches, previous_outputs>>
config_vars  == <<base_cfg, cfg, final_cfg, cfg_pc>>
vars == <<pricing_vars, revenue_vars, amort_vars, irr_vars, main_vars, config_vars>>

----------------------------------------------------------------------------
(* Exact rational arithmetic standing for Python float arithmetic.         *)

Abs(x) == IF x < 0 THEN -x ELSE x

RECURSIVE GCD(_, _)
GCD(a, b) == IF b = 0 THEN a ELSE GCD(b, a % b)

\* The rational n/d in lowest terms (d # 0).
Q(n, d) ==
    LET g == GCD(Abs(n), Abs(d))
        s == IF d < 0 THEN -1 ELSE 1
    IN  [n |-> s * (n \div g), d |-> s * (d \div g)]

Zero == Q(0, 1)
One  == Q(1, 1)

\* The value carried instead of a result once ZeroDivisionError was raised.
ZeroDivisionError == [n |-> 0, d |-> 0]
IsErr(a) == a.d = 0

RNeg(a) == [n |-> -a.n, d |-> a.d]

RAdd(a, b) ==
    IF IsErr(a) \/ IsErr(b) THEN ZeroDivisionError
    ELSE LET g == GCD(a.d, b.d)
         IN  Q(a.n * (b.d \div g) + b.n * (a.d \div g), a.d * (b.d \div g))

RSub(a, b) == RAdd(a, RNeg(b))

RMul(a, b) ==
    IF IsErr(a) \/ IsErr(b) THEN ZeroDivisionError
    ELSE LET g1 == GCD(Abs(a.n), b.d)
             g2 == GCD(Abs(b.n), a.d)
         IN  Q((a.n \div g1) * (b.n \div g2), (a.d \div g2) * (b.d \div g1))

\* a / b: raises ZeroDivisionError when b = 0.
RDiv(a, b) ==
    IF IsErr(a) \/ IsErr(b) \/ b.n = 0 THEN ZeroDivisionError
    ELSE RMul(a, Q(b.d, b.n))

\* a < b and a <= b, compared over the least common denominator.
RLt(a, b) ==
    IF IsErr(a) \/ IsErr(b) THEN FALSE
    ELSE LET g == GCD(a.d, b.d)
         IN  a.n * (b.d \div g) < b.n * (a.d \div g)
RLe(a, b) ==
    IF IsErr(a) \/ IsErr(b) THEN TRUE
    ELSE LET g == GCD(a.d, b.d)
         IN  a.n * (b.d \div g) <= b.n * (a.d \div g)

RMax(a, b) == IF RLt(a, b) THEN b ELSE a      \* max(a, b)
RMin(a, b) == IF RLt(b, a) THEN b ELSE a      \* min(a, b)

\* base ** k for an integer k >= 0, and base ** -k.
RECURSIVE RPow(_, _)
RPow(base, k) == IF k = 0 THEN One ELSE RMul(base, RPow(base, k - 1))
RPowNeg(base, k) == RDiv(One, RPow(base, k))

RECURSIVE RSum(_)
RSum(s) == IF s = <<>> THEN Zero ELSE RAdd(s[1], RSum(Tail(s)))

----------------------------------------------------------------------------
(* Python dicts keep insertion order: a dict is a sequence of [key, value] *)
(* pairs with pairwise distinct keys.                                      *)

DictKeys(d) == [i \in 1..Len(d) |-> d[i].key]
DictHas(d, k) == \E i \in 1..Len(d) : d[i].key = k
DictGet(d, k) == d[CHOOSE i \in 1..Len(d) : d[i].key = k].value

\* d[k] = v: an existing key keeps its position and takes the new value.
DictSet(d, k, v) ==
    IF DictHas(d, k)
    THEN [i \in 1..Len(d) |-> IF d[i].key = k THEN [key |-> k, value |-> v] ELSE d[i]]
    ELSE Append(d, [key |-> k, value |-> v])

----------------------------------------------------------------------------
(* PricingModel: SeasonPricing.equivalent_nightly_rate                     *)

NightsPerWeek  == 7
NightsPerMonth == 30

\* total_share = self.share_nightly + self.share_weekly + self.share_monthly
TotalShare(p) == RAdd(RAdd(p.share_nightly, p.share_weekly), p.share_monthly)

\* Mutant of IsDegenerateMix: the guard written `total_share < 0`.
IsDegenerateMix_strict(total_share) == RLt(total_share, Zero)

\* if total_share <= 0: return 0.0
IsDegenerateMix(total_share) == RLe(total_share, Zero)

\* Mutant of NormalizedShare: the share used as a weight without normalisation.
NormalizedShare_raw(share, total_share) == share

\* sn = self.share_nightly / total_share  (likewise sw, sm)
NormalizedShare(share, total_share) == RDiv(share, total_share)

\* Mutant of NightlyEquivalent: the tenor price used without conversion to a night.
NightlyEquivalent_unconverted(price, nights) == price

\* self.price_per_week / 7.0 if self.price_per_week else 0.0
NightlyEquivalent(price, nights) ==
    IF price.n # 0 THEN RDiv(price, Q(nights, 1)) ELSE Zero

\* One call of equivalent_nightly_rate: the value returned and the divisors
\* of the divisions by total_share it performed, in order.
NightlyRateCall(p) ==
    LET total_share == TotalShare(p) IN
    IF IsDegenerateMix(total_share)
    THEN [rate |-> Zero, divisors |-> <<>>]
    ELSE LET sn == NormalizedShare(p.share_nightly, total_share)
             sw == NormalizedShare(p.share_weekly, total_share)
             sm == NormalizedShare(p.share_monthly, total_share)
             nightly_part == RMul(sn, p.price_per_night)
             weekly_part  == RMul(sw, NightlyEquivalent(p.price_per_week, NightsPerWeek))
             monthly_part == RMul(sm, NightlyEquivalent(p.price_per_month, NightsPerMonth))
         IN  [rate     |-> RAdd(RAdd(nightly_part, weekly_part), monthly_part),
              divisors |-> <<total_share, total_share, total_share>>]

equivalent_nightly_rate(p) == NightlyRateCall(p).rate

\* Inputs of the pricing specification.
PriceValues == {Q(0, 1), Q(150, 1), Q(950, 1), Q(3200, 1)}
ShareValues == {Q(-3, 10), Q(0, 1), Q(1, 10), Q(3, 10), Q(6, 10)}
ScaleFactors == {Q(1, 2), Q(2, 1), Q(3, 1), Q(7, 10)}

SeasonPricing ==
    [price_per_night : PriceValues, price_per_week : PriceValues,
     price_per_month : PriceValues, share_nightly : ShareValues,
     share_weekly : ShareValues, share_monthly : ShareValues]

\* The pricing of the spec's worked example: 150/950/0 with mix 0.6/0.3/0.1.
ExamplePricing ==
    [price_per_night |-> Q(150, 1), price_per_week |-> Q(950, 1),
     price_per_month |-> Q(0, 1), share_nightly |-> Q(6, 10),
     share_weekly |-> Q(3, 10), share_monthly |-> Q(1, 10)]

\* The same prices with every share multiplied by k.
ScaleShares(p, k) ==
    [p EXCEPT !.share_nightly = RMul(@, k), !.share_weekly = RMul(@, k),
              !.share_monthly = RMul(@, k)]

NoCall == [done |-> FALSE, rate |-> Zero, divisors |-> <<>>]

\* rate = pricing.equivalent_nightly_rate()
CallNightlyRate ==
    /\ ~sp_call.done
    /\ sp_call' = [done |-> TRUE, rate |-> NightlyRateCall(sp).rate,
                   divisors |-> NightlyRateCall(sp).divisors]
    /\ UNCHANGED <<sp, revenue_vars, amort_vars, irr_vars, main_vars, config_vars>>

----------------------------------------------------------------------------
(* RevenueAggregator: simulate_annual_revenue                              *)
(* A Season is [name, days, occupancy, pricing]; occupancy and pricing are *)
(* functions whose domain is the set of room-type names that have an entry *)
(* (dict.get of a name outside the domain yields the default).             *)

\* Mutant of OccupancyOf: the aggregator clamping the occupancy at 1.0.
OccupancyOf_clamped(season, rt_name) ==
    IF rt_name \in DOMAIN season.occupancy
    THEN RMin(One, season.occupancy[rt_name]) ELSE Zero

\* occ_rate = season.occupancy.get(rt_name, 0.0)
OccupancyOf(season, rt_name) ==
    IF rt_name \in DOMAIN season.occupancy THEN season.occupancy[rt_name] ELSE Zero

\* pricing = season.pricing.get(rt_name); pricing is None
PricingIsNone(season, rt_name) == rt_name \notin DOMAIN season.pricing

\* The body of the inner loop after the `continue` test: the breakdown entry
\* of one room type in one season.
RoomEntry(room_type, season, rt_name) ==
    LET occ_rate == OccupancyOf(season, rt_name)
        rate == equivalent_nightly_rate(season.pricing[rt_name])
        total_room_nights == room_type.count * season.days
        occupied_nights == RMul(Q(total_room_nights, 1), occ_rate)
        revenue == RMul(occupied_nights, rate)
    IN  [equivalent_nightly_rate |-> rate,
         occupancy_rate          |-> occ_rate,
         total_room_nights       |-> total_room_nights,
         occupied_nights         |-> occupied_nights,
         revenue                 |-> revenue]

\* Mutant of RoomStep: a room type without pricing reported with a zero entry
\* instead of being skipped.
RoomStep_zero_entry(item, season, acc) ==
    LET e == IF PricingIsNone(season, item.key)
             THEN [equivalent_nightly_rate |-> Zero,
                   occupancy_rate |-> OccupancyOf(season, item.key),
                   total_room_nights |-> item.value.count * season.days,
                   occupied_nights |-> Zero, revenue |-> Zero]
             ELSE RoomEntry(item.value, season, item.key)
    IN  [season_revenue |-> RAdd(acc.season_revenue, e.revenue),
         room_breakdown |-> DictSet(acc.room_breakdown, item.key, e)]

\* One iteration of `for rt_name, room_type in room_types.items()` on the
\* locals acc = [season_revenue, room_breakdown].
RoomStep(item, season, acc) ==
    IF PricingIsNone(season, item.key)
    THEN acc                                                  \* continue
    ELSE LET e == RoomEntry(item.value, season, item.key)
         IN  [season_revenue |-> RAdd(acc.season_revenue, e.revenue),
              room_breakdown |-> DictSet(acc.room_breakdown, item.key, e)]

RECURSIVE RoomLoop(_, _, _, _)
RoomLoop(rts, season, j, acc) ==
    IF j > Len(rts) THEN acc
    ELSE RoomLoop(rts, season, j + 1, RoomStep(rts[j], season, acc))

\* One iteration of `for season in seasons` on the local `results`.
SeasonStep(rts, season, res) ==
    LET acc == RoomLoop(rts, season, 1,
                        [season_revenue |-> Zero, room_breakdown |-> <<>>])
    IN  [per_season |->
             DictSet(res.per_season, season.name,
                     [revenue |-> acc.season_revenue,
                      by_room_type |-> acc.room_breakdown]),
         total_revenue |-> RAdd(res.total_revenue, acc.season_revenue)]

\* results = {"per_season": {}, "total_revenue": 0.0}
EmptyResults == [per_season |-> <<>>, total_revenue |-> Zero]

RECURSIVE SeasonLoop(_, _, _, _)
SeasonLoop(rts, ss, i, res) ==
    IF i > Len(ss) THEN res
    ELSE SeasonLoop(rts, ss, i + 1, SeasonStep(rts, ss[i], res))

simulate_annual_revenue(rts, ss) == SeasonLoop(rts, ss, 1, EmptyResults)

\* Inputs of the revenue specification.
MaxSeasons == 2

RoomNames == {"premium", "dortoir"}
SeasonNames == {"hiver", "ete"}
DayValues == {30, 90}

RoomTypeOf(name) ==
    [name |-> name, count |-> IF name = "premium" THEN 6 ELSE 2]

DortoirPricing ==
    [price_per_night |-> Q(38, 1), price_per_week |-> Q(230, 1),
     price_per_month |-> Q(0, 1), share_nightly |-> Q(9, 10),
     share_weekly |-> Q(1, 10), share_monthly |-> Q(0, 1)]

\* Occupancy above 1 for "premium" with no entry for "dortoir", or both in range.
OccupancyMaps ==
    { ("premium" :> Q(85, 100)) @@ ("dortoir" :> Q(9, 10)),
      ("premium" :> Q(6, 5)) }

\* Both room types priced, or "premium" alone.
PricingMaps ==
    { ("premium" :> ExamplePricing) @@ ("dortoir" :> DortoirPricing),
      ("premium" :> ExamplePricing) }

SeasonSamples ==
    [name : SeasonNames, days : DayValues,
     occupancy : OccupancyMaps, pricing : PricingMaps]

SeasonLists == UNION {[1..k -> SeasonSamples] : k \in 0..MaxSeasons}

\* The room inventories: every ordered dict over RoomNames.
Inventories ==
    LET orders == UNION {[1..k -> RoomNames] : k \in 0..Cardinality(RoomNames)}
    IN  { [i \in 1..Len(o) |-> [key |-> o[i], value |-> RoomTypeOf(o[i])]] :
            o \in {o \in orders : \A i, j \in 1..Len(o) : o[i] = o[j] => i = j} }

\* simulate_annual_revenue is entered: results = {...}
CallSimulate ==
    /\ rev_pc = "idle"
    /\ rev_pc' = "loop"
    /\ results' = EmptyResults
    /\ season_idx' = 0
    /\ UNCHANGED <<room_types, seasons>>
    /\ UNCHANGED <<pricing_vars, amort_vars, irr_vars, main_vars, config_vars>>

\* for season in seasons: ...
SeasonIteration ==
    /\ rev_pc = "loop"
    /\ season_idx < Len(seasons)
    /\ results' = SeasonStep(room_types, seasons[season_idx + 1], results)
    /\ season_idx' = season_idx + 1
    /\ UNCHANGED <<room_types, seasons, rev_pc>>
    /\ UNCHANGED <<pricing_vars, amort_vars, irr_vars, main_vars, config_vars>>

\* return results
ReturnResults ==
    /\ rev_pc = "loop"
    /\ season_idx = Len(seasons)
    /\ rev_pc' = "returned"
    /\ UNCHANGED <<room_types, seasons, results, season_idx>>
    /\ UNCHANGED <<pricing_vars, amort_vars, irr_vars, main_vars, config_vars>>

----------------------------------------------------------------------------
(* AmortizationScheduler: build_amortization_schedule, and the reading of  *)
(* its schedule by the yearly projection loop of main.  `years` is an      *)
(* integer (the value of an integer input field), so n = int(years) is     *)
(* that integer.                                                           *)

\* Mutant of NoSchedule: the test on years written `years < 0`.
NoSchedule_years_strict(debt, r, n) == RLe(debt, Zero) \/ RLt(r, Zero) \/ n < 0

\* if debt_amount <= 0 or annual_rate < 0 or years <= 0: return []
NoSchedule(debt, r, n) == RLe(debt, Zero) \/ RLt(r, Zero) \/ n <= 0

\* Mutant of AnnualPayment: the zero-rate branch missing, the annuity formula
\* applied to every rate.
AnnualPayment_no_zero_branch(debt, r, n) ==
    RMul(debt, RDiv(r, RSub(One, RPowNeg(RAdd(One, r), n))))

\* Mutant of AnnualPayment: the annuity computed over one year too many.
AnnualPayment_off_by_one(debt, r, n) ==
    IF r = Zero THEN RDiv(debt, Q(n + 1, 1))
    ELSE RMul(debt, RDiv(r, RSub(One, RPowNeg(RAdd(One, r), n + 1))))

\* annual_payment: debt / n when r == 0, else debt * (r / (1 - (1 + r) ** -n))
AnnualPayment(debt, r, n) ==
    IF r = Zero THEN RDiv(debt, Q(n, 1))
    ELSE RMul(debt, RDiv(r, RSub(One, RPowNeg(RAdd(One, r), n))))

\* Mutant of ScheduleRow: the principal added to the balance instead of
\* subtracted from it.
ScheduleRow_balance_grows(rem, r, payment, yr) ==
    LET interest == RMul(rem, r)
        principal == RSub(payment, interest)
    IN  [year      |-> yr,
         payment   |-> payment,
         interest  |-> interest,
         principal |-> principal,
         remaining |-> RMax(Zero, RAdd(rem, principal))]

\* The body of `for year in range(1, n + 1)`: the row appended for `yr`,
\* whose "remaining" is the new value of the local `remaining`.
ScheduleRow(rem, r, payment, yr) ==
    LET interest == RMul(rem, r)
        principal == RSub(payment, interest)
    IN  [year      |-> yr,
         payment   |-> payment,
         interest  |-> interest,
         principal |-> principal,
         remaining |-> RMax(Zero, RSub(rem, principal))]

\* Mutant of LoopContinues: range(1, n) instead of range(1, n + 1).
LoopContinues_short(yr, n) == yr < n

\* The loop test of range(1, n + 1) with `yr` the next value.
LoopContinues(yr, n) == yr <= n

\* Mutant of DebtOfYear: past the end of the schedule the last row is read
\* again instead of the zeros of the else branch.
DebtOfYear_repeats_last_row(sched, t) ==
    IF sched # <<>>
    THEN LET k == IF t <= Len(sched) THEN t ELSE Len(sched)
         IN  [interest_t |-> sched[k].interest, principal_t |-> sched[k].principal,
              remaining_debt_t |-> sched[k].remaining,
              debt_service_t |-> sched[k].payment]
    ELSE [interest_t |-> Zero, principal_t |-> Zero, remaining_debt_t |-> Zero,
          debt_service_t |-> Zero]

\* main: the debt figures of projection year t read from amort_schedule.
DebtOfYear(sched, t) ==
    IF 1 <= t /\ t <= Len(sched)
    THEN [interest_t |-> sched[t].interest, principal_t |-> sched[t].principal,
          remaining_debt_t |-> sched[t].remaining, debt_service_t |-> sched[t].payment]
    ELSE [interest_t |-> Zero, principal_t |-> Zero,
          remaining_debt_t |-> IF sched # <<>> THEN sched[Len(sched)].remaining
                               ELSE Zero,
          debt_service_t |-> Zero]

\* Inputs of the amortization specification.
MaxLoanYears == 4
MaxHorizon == 3

DebtValues == {Q(-100, 1), Q(0, 1), Q(100, 1), Q(250, 1)}
RateValues == {Q(-1, 100), Q(0, 1), Q(1, 10), Q(1, 2)}
YearValues == -1..MaxLoanYears

NoDebtRead ==
    [interest_t |-> Zero, principal_t |-> Zero, remaining_debt_t |-> Zero,
     debt_service_t |-> Zero]

\* The guard holds: return []
ReturnEmpty ==
    /\ am_pc = "called"
    /\ NoSchedule(debt_amount, annual_rate, years)
    /\ schedule' = <<>>
    /\ am_pc' = "returned"
    /\ UNCHANGED <<debt_amount, annual_rate, years, annual_payment, remaining,
                   year, horizon_years, proj_year, debt_t>>
    /\ UNCHANGED <<pricing_vars, revenue_vars, irr_vars, main_vars, config_vars>>

\* The guard fails: annual_payment is computed, schedule = [], remaining = debt_amount
StartSchedule ==
    /\ am_pc = "called"
    /\ ~NoSchedule(debt_amount, annual_rate, years)
    /\ annual_payment' = AnnualPayment(debt_amount, annual_rate, years)
    /\ schedule' = <<>>
    /\ remaining' = debt_amount
    /\ year' = 1
    /\ am_pc' = "loop"
    /\ UNCHANGED <<debt_amount, annual_rate, years, horizon_years, proj_year, debt_t>>
    /\ UNCHANGED <<pricing_vars, revenue_vars, irr_vars, main_vars, config_vars>>

\* One pass of the loop: the row of `year` is appended
AppendRow ==
    /\ am_pc = "loop"
    /\ LoopContinues(year, years)
    /\ LET row == ScheduleRow(remaining, annual_rate, annual_payment, year)
       IN  /\ remaining' = row.remaining
           /\ schedule' = Append(schedule, row)
    /\ year' = year + 1
    /\ UNCHANGED <<debt_amount, annual_rate, years, annual_payment, am_pc,
                   horizon_years, proj_year, debt_t>>
    /\ UNCHANGED <<pricing_vars, revenue_vars, irr_vars, main_vars, config_vars>>

\* The loop is exhausted: return schedule
ReturnSchedule ==
    /\ am_pc = "loop"
    /\ ~LoopContinues(year, years)
    /\ am_pc' = "returned"
    /\ UNCHANGED <<debt_amount, annual_rate, years, annual_payment, remaining,
                   year, schedule, horizon_years, proj_year, debt_t>>
    /\ UNCHANGED <<pricing_vars, revenue_vars, irr_vars, main_vars, config_vars>>

\* main, for year in range(1, horizon_years + 1): the debt figures of the year
ReadDebtOfYear ==
    /\ am_pc = "returned"
    /\ proj_year < horizon_years
    /\ proj_year' = proj_year + 1
    /\ debt_t' = DebtOfYear(schedule, proj_year + 1)
    /\ UNCHANGED <<debt_amount, annual_rate, years, annual_payment, remaining,
                   year, schedule, am_pc, horizon_years>>
    /\ UNCHANGED <<pricing_vars, revenue_vars, irr_vars, main_vars, config_vars>>

----------------------------------------------------------------------------
(* IRRSolver: compute_irr                                                  *)

\* Mutant of NoSignChange: only the all-non-negative series rejected.
NoSignChange_nonneg_only(cfs) == \A t \in 1..Len(cfs) : RLe(Zero, cfs[t])

\* all(cf >= 0 for cf in cashflows) or all(cf <= 0 for cf in cashflows)
NoSignChange(cfs) ==
    \/ \A t \in 1..Len(cfs) : RLe(Zero, cfs[t])
    \/ \A t \in 1..Len(cfs) : RLe(cfs[t], Zero)

\* low, high = -0.9, 1.0
IrrLow  == Q(-9, 10)
IrrHigh == One

\* tol=1e-6, as 1 / TolInv
TolInv == 1000000

\* max_iter: the source's default is 1000. The numerators of NPV(mid) grow by
\* a factor 4 with every halving, so the iteration cap is kept small.
MaxIter == 6

\* mid = (low + high) / 2
Midpoint(lo, hi) == RDiv(RAdd(lo, hi), Q(2, 1))

\* cf / ((1 + mid) ** t)
DiscountedFlow(cf, rate, t) == RDiv(cf, RPow(RAdd(One, rate), t))

\* npv = sum(cf / ((1 + mid) ** t) for t, cf in enumerate(cashflows))
NPV(cfs, rate) ==
    RSum([i \in 1..Len(cfs) |-> DiscountedFlow(cfs[i], rate, i - 1)])

\* abs(npv) < tol, that is |n| / d < 1 / TolInv, decided without forming
\* the product |n| * TolInv.
IsBelowTol(v) == Abs(v.n) <= (v.d - 1) \div TolInv

\* Mutant of NextBracket: the two branches exchanged.
NextBracket_swapped(lo, hi, m, v) ==
    IF RLt(Zero, v) THEN [low |-> lo, high |-> m] ELSE [low |-> m, high |-> hi]

\* if npv > 0: low = mid  else: high = mid
NextBracket(lo, hi, m, v) ==
    IF RLt(Zero, v) THEN [low |-> m, high |-> hi] ELSE [low |-> lo, high |-> m]

\* Mutant of IrrLoopContinues: one iteration more than max_iter.
IrrLoopContinues_extra(k) == k <= MaxIter

\* for _ in range(max_iter): another iteration after k of them
IrrLoopContinues(k) == k < MaxIter

\* The values compute_irr returns: None, or a rate.
IrrNone == [none |-> TRUE, rate |-> Zero]
IrrRate(r) == [none |-> FALSE, rate |-> r]

\* The rates as the machine holds them. A float keeps a fixed number of
\* significant bits (53 for the doubles of Python, MantissaBits here, fewer
\* than max_iter as in the source) and every sum is rounded to the nearest
\* such number, a tie going to the even mantissa. The division by 2 is exact.
\* With 3 bits the literal -0.9 is held as -0.875, of odd mantissa like the
\* double nearest to -0.9.
MantissaBits == 3

\* The power of two s that brings a > 0 into [2^(MantissaBits-1), 2^MantissaBits).
RECURSIVE FloatScale(_, _)
FloatScale(a, s) ==
    LET v == RMul(a, s)
    IN  IF RLe(Q(2 ^ MantissaBits, 1), v) THEN FloatScale(a, RDiv(s, Q(2, 1)))
        ELSE IF RLt(v, Q(2 ^ (MantissaBits - 1), 1)) THEN FloatScale(a, RMul(s, Q(2, 1)))
        ELSE s

\* The integer nearest to v >= 0, the even one of the two when v lies halfway.
RoundHalfEven(v) ==
    LET q == v.n \div v.d
        r == v.n % v.d
    IN  IF 2 * r < v.d THEN q
        ELSE IF 2 * r > v.d THEN q + 1
        ELSE IF q % 2 = 0 THEN q ELSE q + 1

\* The float nearest to x.
RoundFloat(x) ==
    IF x.n = 0 THEN x
    ELSE LET a == [n |-> Abs(x.n), d |-> x.d]
             s == FloatScale(a, One)
             r == RDiv(Q(RoundHalfEven(RMul(a, s)), 1), s)
         IN  IF x.n < 0 THEN RNeg(r) ELSE r

\* The literal -0.9 as a float.
FloatLow == RoundFloat(IrrLow)

\* mid = (low + high) / 2 in floats: the sum is rounded, the half of it is exact.
FloatMidpoint(lo, hi) == RDiv(RoundFloat(RAdd(lo, hi)), Q(2, 1))

\* Cash-flow series of up to three entries, among them the series
\* [-100, 60, 60], [100, 60, 60], [-100, 105] (root 0.05, the first midpoint),
\* [-60, 100, 100] (root above 1.0) and [100, -60, -60].
CashflowValues == {Q(-100, 1), Q(-60, 1), Zero, Q(60, 1), Q(100, 1), Q(105, 1)}
FlowCounts == 0..3
CashflowSeries == UNION {[1..k -> CashflowValues] : k \in FlowCounts}

\* return None
ReturnNone ==
    /\ irr_pc = "called"
    /\ NoSignChange(cashflows)
    /\ irr_pc' = "returned"
    /\ irr_ret' = IrrNone
    /\ UNCHANGED <<cashflows, low, high, mid, npv, irr_iter>>
    /\ UNCHANGED <<pricing_vars, revenue_vars, amort_vars, main_vars, config_vars>>

\* low, high = -0.9, 1.0
StartBisection ==
    /\ irr_pc = "called"
    /\ ~NoSignChange(cashflows)
    /\ low' = IrrLow
    /\ high' = IrrHigh
    /\ irr_pc' = "loop"
    /\ UNCHANGED <<cashflows, mid, npv, irr_iter, irr_ret>>
    /\ UNCHANGED <<pricing_vars, revenue_vars, amort_vars, main_vars, config_vars>>

\* One iteration of the loop: the midpoint, its NPV, then `return mid` or the
\* narrowed interval.
BisectionStep ==
    /\ irr_pc = "loop"
    /\ IrrLoopContinues(irr_iter)
    /\ LET m == Midpoint(low, high)
           v == NPV(cashflows, m)
           b == NextBracket(low, high, m, v)
       IN  /\ mid' = m
           /\ npv' = v
           /\ irr_iter' = irr_iter + 1
           /\ IF IsBelowTol(v)
              THEN /\ irr_pc' = "returned"
                   /\ irr_ret' = IrrRate(m)
                   /\ UNCHANGED <<low, high>>
              ELSE /\ low' = b.low
                   /\ high' = b.high
                   /\ UNCHANGED <<irr_pc, irr_ret>>
    /\ UNCHANGED cashflows
    /\ UNCHANGED <<pricing_vars, revenue_vars, amort_vars, main_vars, config_vars>>

\* return mid, after the loop ran out
ReturnLastMid ==
    /\ irr_pc = "loop"
    /\ ~IrrLoopContinues(irr_iter)
    /\ irr_pc' = "returned"
    /\ irr_ret' = IrrRate(mid)
    /\ UNCHANGED <<cashflows, low, high, mid, npv, irr_iter>>
    /\ UNCHANGED <<pricing_vars, revenue_vars, amort_vars, main_vars, config_vars>>

\* low, high = -0.9, 1.0 in floats
StartBisectionFloat ==
    /\ irr_pc = "called"
    /\ ~NoSignChange(cashflows)
    /\ low' = FloatLow
    /\ high' = IrrHigh
    /\ irr_pc' = "loop"
    /\ UNCHANGED <<cashflows, mid, npv, irr_iter, irr_ret>>
    /\ UNCHANGED <<pricing_vars, revenue_vars, amort_vars, main_vars, config_vars>>

\* One iteration of the loop with the midpoint computed in floats.
BisectionStepFloat ==
    /\ irr_pc = "loop"
    /\ IrrLoopContinues(irr_iter)
    /\ LET m == FloatMidpoint(low, high)
           v == NPV(cashflows, m)
           b == NextBracket(low, high, m, v)
       IN  /\ mid' = m
           /\ npv' = v
           /\ irr_iter' = irr_iter + 1
           /\ IF IsBelowTol(v)
              THEN /\ irr_pc' = "returned"
                   /\ irr_ret' = IrrRate(m)
                   /\ UNCHANGED <<low, high>>
              ELSE /\ low' = b.low
                   /\ high' = b.high
                   /\ UNCHANGED <<irr_pc, irr_ret>>
    /\ UNCHANGED cashflows
    /\ UNCHANGED <<pricing_vars, revenue_vars, amort_vars, main_vars, config_vars>>

----------------------------------------------------------------------------
(* ScenarioProjector: the body of main run by the launch button.           *)
(* compute_irr(cashflows) is a call without side effect, specified on its  *)
(* own above; of its result the projection keeps whether it is None.       *)

RECURSIVE AmortLoop(_, _, _, _, _, _)
AmortLoop(rem, r, payment, yr, n, sched) ==
    IF LoopContinues(yr, n)
    THEN LET row == ScheduleRow(rem, r, payment, yr)
         IN  AmortLoop(row.remaining, r, payment, yr + 1, n, Append(sched, row))
    ELSE sched

\* build_amortization_schedule as a function of its arguments.
build_amortization_schedule(debt, r, n) ==
    IF NoSchedule(debt, r, n) THEN <<>>
    ELSE AmortLoop(debt, r, AnnualPayment(debt, r, n), 1, n, <<>>)

\* The locals main sets before the scenario loop.
RunSetup(inp) ==
    LET debt == RMul(inp.total_investment, inp.debt_ratio)
        base == RMul(inp.total_investment, inp.amortizable_share)
    IN  [debt_amount         |-> debt,
         equity_amount       |-> RMul(inp.total_investment, RSub(One, inp.debt_ratio)),
         amort_schedule      |-> build_amortization_schedule(debt, inp.interest_rate,
                                                             inp.loan_years),
         amortizable_base    |-> base,
         annual_depreciation |-> RDiv(base, Q(inp.deprec_years, 1))]

\* Mutant of ScenarioOccupancy: the scaled occupancy without the cap.
ScenarioOccupancy_uncapped(occ_base, occ_factor) == RMul(occ_base, occ_factor)

\* occ_scen = min(1.0, occ_base * occ_factor)
ScenarioOccupancy(occ_base, occ_factor) == RMin(One, RMul(occ_base, occ_factor))

\* The SeasonPricing built from pb: prices times price_factor, shares as they are.
ScenarioPricing(pb, price_factor) ==
    [price_per_night |-> RMul(pb.price_per_night, price_factor),
     price_per_week  |-> RMul(pb.price_per_week, price_factor),
     price_per_month |-> RMul(pb.price_per_month, price_factor),
     share_nightly   |-> pb.share_nightly,
     share_weekly    |-> pb.share_weekly,
     share_monthly   |-> pb.share_monthly]

\* The Season appended for one item of seasons_base_config.
ScenarioSeason(item, params) ==
    [name      |-> item.key,
     days      |-> item.value.days,
     occupancy |-> [rt \in DOMAIN item.value.occupancy_base |->
                      ScenarioOccupancy(item.value.occupancy_base[rt],
                                        params.occ_factor)],
     pricing   |-> [rt \in DOMAIN item.value.pricing_base |->
                      ScenarioPricing(item.value.pricing_base[rt],
                                      params.price_factor)]]

\* seasons, after `for season_name, cfg in seasons_base_config.items()`
ScenarioSeasons(base, params) ==
    [i \in 1..Len(base) |-> ScenarioSeason(base[i], params)]

\* Mutant of BaseConfigAfter: the scaled occupancies and prices written back
\* into cfg["occupancy_base"] and cfg["pricing_base"].
BaseConfigAfter_in_place(base, params) ==
    [i \in 1..Len(base) |->
        LET sn == ScenarioSeason(base[i], params)
        IN  [key |-> base[i].key,
             value |-> [days |-> base[i].value.days,
                        occupancy_base |-> sn.occupancy,
                        pricing_base |-> sn.pricing]]]

\* seasons_base_config after the seasons of a scenario were built: the loop
\* reads cfg and writes into the fresh dicts `occupancy` and `pricing` only.
BaseConfigAfter(base, params) == base

\* Mutant of YearOneFigures: the cost factor applied to the variable costs
\* only, the fixed costs taken as entered.
YearOneFigures_fixed_unscaled(inp, params, revenue) ==
    LET variable_costs_base == RMul(revenue, inp.variable_cost_rate)
        fixed_costs_effective == inp.base_fixed_costs
        variable_costs_effective == RMul(variable_costs_base, params.cost_factor)
        total_costs == RAdd(fixed_costs_effective, variable_costs_effective)
    IN  [fixed_costs_effective    |-> fixed_costs_effective,
         variable_costs_effective |-> variable_costs_effective,
         total_costs              |-> total_costs,
         ebitda_year1             |-> RSub(revenue, total_costs)]

\* Charges of year 1 and ebitda_year1.
YearOneFigures(inp, params, revenue) ==
    LET variable_costs_base == RMul(revenue, inp.variable_cost_rate)
        fixed_costs_effective == RMul(inp.base_fixed_costs, params.cost_factor)
        variable_costs_effective == RMul(variable_costs_base, params.cost_factor)
        total_costs == RAdd(fixed_costs_effective, variable_costs_effective)
    IN  [fixed_costs_effective    |-> fixed_costs_effective,
         variable_costs_effective |-> variable_costs_effective,
         total_costs              |-> total_costs,
         ebitda_year1             |-> RSub(revenue, total_costs)]

\* The values of dscr_t: None, or a ratio.
DscrNone == [none |-> TRUE, value |-> Zero]

\* Mutant of Dscr: the ratio taken whatever the debt service.
Dscr_always_divides(cfads_t, debt_service_t) ==
    [none |-> FALSE, value |-> RDiv(cfads_t, debt_service_t)]

\* dscr_t = cfads_t / debt_service_t if debt_service_t > 0 else None
Dscr(cfads_t, debt_service_t) ==
    IF RLt(Zero, debt_service_t)
    THEN [none |-> FALSE, value |-> RDiv(cfads_t, debt_service_t)]
    ELSE DscrNone

\* Mutant of EbitdaOfYear: the growth applied from year 1 on.
EbitdaOfYear_grows_in_year1(ebitda_year1, growth_rate, yr) ==
    RMul(ebitda_year1, RPow(RAdd(One, growth_rate), yr))

\* ebitda_t = ebitda_year1 * ((1 + growth_rate) ** (year - 1))
EbitdaOfYear(ebitda_year1, growth_rate, yr) ==
    RMul(ebitda_year1, RPow(RAdd(One, growth_rate), yr - 1))

\* Mutant of Taxable: the floor at 0 missing.
Taxable_unfloored(ebit_t, interest_t) == RSub(ebit_t, interest_t)

\* taxable_t = max(0.0, ebit_t - interest_t)
Taxable(ebit_t, interest_t) == RMax(Zero, RSub(ebit_t, interest_t))

\* Mutant of Fcfe: the depreciation not added back.
Fcfe_no_addback(net_income_t, depreciation_t, principal_t) ==
    RSub(net_income_t, principal_t)

\* fcfe_t = net_income_t + depreciation_t - principal_t
Fcfe(net_income_t, depreciation_t, principal_t) ==
    RSub(RAdd(net_income_t, depreciation_t), principal_t)

\* Mutant of IsExitYear: the sale booked in every year.
IsExitYear_every_year(yr, horizon) == TRUE

\* if year == horizon_years
IsExitYear(yr, horizon) == yr = horizon

\* exit_value, exit_costs and net_sale of the year of the sale.
NetSale(ebitda_t, exit_multiple, exit_cost_rate, remaining_debt_t) ==
    LET exit_value == RMul(ebitda_t, exit_multiple)
        exit_costs == RMul(exit_value, exit_cost_rate)
        remaining_debt_for_exit == remaining_debt_t
    IN  RSub(RSub(exit_value, exit_costs), remaining_debt_for_exit)

\* The locals of one iteration of `for year in range(1, horizon_years + 1)`.
YearFigures(inp, rn, ebitda_year1, yr) ==
    LET ebitda_t == EbitdaOfYear(ebitda_year1, inp.growth_rate, yr)
        d == DebtOfYear(rn.amort_schedule, yr)
        depreciation_t == rn.annual_depreciation
        ebit_t == RSub(ebitda_t, depreciation_t)
        taxable_t == Taxable(ebit_t, d.interest_t)
        tax_t == RMul(taxable_t, inp.tax_rate)
        net_income_t == RSub(RSub(ebit_t, d.interest_t), tax_t)
        cfads_t == RSub(ebitda_t, tax_t)
        fcfe_before_exit == Fcfe(net_income_t, depreciation_t, d.principal_t)
        is_exit == IsExitYear(yr, inp.horizon_years)
        net_sale == NetSale(ebitda_t, inp.exit_multiple, inp.exit_cost_rate,
                            d.remaining_debt_t)
    IN  [ebitda_t         |-> ebitda_t,
         interest_t       |-> d.interest_t,
         principal_t      |-> d.principal_t,
         remaining_debt_t |-> d.remaining_debt_t,
         debt_service_t   |-> d.debt_service_t,
         depreciation_t   |-> depreciation_t,
         ebit_t           |-> ebit_t,
         taxable_t        |-> taxable_t,
         tax_t            |-> tax_t,
         net_income_t     |-> net_income_t,
         cfads_t          |-> cfads_t,
         is_exit          |-> is_exit,
         net_sale         |-> IF is_exit THEN net_sale ELSE Zero,
         fcfe_t           |-> IF is_exit THEN RAdd(fcfe_before_exit, net_sale)
                              ELSE fcfe_before_exit,
         dscr_t           |-> Dscr(cfads_t, d.debt_service_t)]

NoFigures ==
    [ebitda_t |-> Zero, interest_t |-> Zero, principal_t |-> Zero,
     remaining_debt_t |-> Zero, debt_service_t |-> Zero, depreciation_t |-> Zero,
     ebit_t |-> Zero, taxable_t |-> Zero, tax_t |-> Zero, net_income_t |-> Zero,
     cfads_t |-> Zero, is_exit |-> FALSE, net_sale |-> Zero, fcfe_t |-> Zero,
     dscr_t |-> DscrNone]

\* The dict appended to dscr_rows.
DscrRow(yr, f) ==
    [Annee          |-> yr,
     EBITDA         |-> f.ebitda_t,
     CFADS          |-> f.cfads_t,
     Debt_service   |-> f.debt_service_t,
     DSCR           |-> f.dscr_t,
     Interets       |-> f.interest_t,
     Principal      |-> f.principal_t,
     Dette_restante |-> f.remaining_debt_t]

\* Balance sheet of the export: dep_accum = annual_depreciation * min(year, deprec_years)
DepAccum(annual_depreciation, yr, deprec_years) ==
    RMul(annual_depreciation, Q(IF yr < deprec_years THEN yr ELSE deprec_years, 1))

\* Mutant of ProjLoopContinues: range(1, horizon_years) instead of
\* range(1, horizon_years + 1).
ProjLoopContinues_short(done, horizon) == done < horizon - 1

\* for year in range(1, horizon_years + 1): another iteration after `done` of them
ProjLoopContinues(done, horizon) == done < horizon

\* The first part of an iteration of the scenario loop: the factors, the
\* seasons of the scenario and its year-1 revenue results. The other locals
\* keep what the previous iteration left in them.
ScenarioRevenue(rts, base, sc, name, params) ==
    LET ss == ScenarioSeasons(base, params)
    IN  [sc EXCEPT !.scenario_name = name,
                   !.params = params,
                   !.seasons = ss,
                   !.results = simulate_annual_revenue(rts, ss)]

\* Mutant of NewCashflows: `cashflows = []` missing, the series of the
\* previous iteration carried on.
NewCashflows_no_reset(old, equity_amount) == Append(old, RNeg(equity_amount))

\* cashflows = [] ... cashflows.append(-equity_amount)
NewCashflows(old, equity_amount) == <<RNeg(equity_amount)>>

\* The second part: revenue, the charges of year 1, cashflows = [],
\* dscr_rows = [], cashflows.append(-equity_amount).
ScenarioCharges(inp, rn, sc) ==
    LET y1 == YearOneFigures(inp, sc.params, sc.results.total_revenue)
    IN  [sc EXCEPT !.revenue = sc.results.total_revenue,
                   !.fixed_costs_effective = y1.fixed_costs_effective,
                   !.variable_costs_effective = y1.variable_costs_effective,
                   !.total_costs = y1.total_costs,
                   !.ebitda_year1 = y1.ebitda_year1,
                   !.cashflows = NewCashflows(sc.cashflows, rn.equity_amount),
                   !.dscr_rows = <<>>,
                   !.year = 0]

\* One iteration of the year loop on the locals of the scenario.
YearStep(inp, rn, sc) ==
    LET yr == sc.year + 1
        f == YearFigures(inp, rn, sc.ebitda_year1, yr)
    IN  [sc EXCEPT !.year = yr,
                   !.fig = f,
                   !.cashflows = Append(@, f.fcfe_t),
                   !.dscr_rows = Append(@, DscrRow(yr, f))]

\* scenario_results[scenario_name]
ScenarioResult(sc) ==
    [results                  |-> sc.results,
     revenue                  |-> sc.revenue,
     fixed_costs_effective    |-> sc.fixed_costs_effective,
     variable_costs_effective |-> sc.variable_costs_effective,
     total_costs              |-> sc.total_costs,
     ebitda_year1             |-> sc.ebitda_year1,
     cashflows                |-> sc.cashflows,
     irr_is_none              |-> NoSignChange(sc.cashflows),
     params                   |-> sc.params]

\* cf_rows: zip(years, cashflows) with years = list(range(horizon_years + 1))
CashflowRows(horizon, cfs) ==
    LET k == IF Len(cfs) < horizon + 1 THEN Len(cfs) ELSE horizon + 1
    IN  [t \in 1..k |-> [Annee |-> t - 1, CF |-> cfs[t]]]

NoRun ==
    [debt_amount |-> Zero, equity_amount |-> Zero, amort_schedule |-> <<>>,
     amortizable_base |-> Zero, annual_depreciation |-> Zero]

NoParams == [occ_factor |-> One, price_factor |-> One, cost_factor |-> One]

NoScenario ==
    [scenario_name |-> "", params |-> NoParams, seasons |-> <<>>,
     results |-> EmptyResults, revenue |-> Zero, fixed_costs_effective |-> Zero,
     variable_costs_effective |-> Zero, total_costs |-> Zero,
     ebitda_year1 |-> Zero, cashflows |-> <<>>, dscr_rows |-> <<>>, year |-> 0,
     fig |-> NoFigures]

\* Inputs of the projection. Amounts are kept small: an investment of 4400
\* half financed at 20% over 2 years gives a schedule in whole numbers
\* (payment 1440: 440 + 1000, then 240 + 1200). The loan of one year, repaid
\* before the horizon ends, is taken with debt and a long depreciation only.
MainInputs ==
    {inp \in
        [total_investment   : {Q(4400, 1)},
         debt_ratio         : {Zero, Q(1, 2)},
         interest_rate      : {Q(1, 5)},
         loan_years         : {1, 2},
         amortizable_share  : {Q(1, 2)},
         deprec_years       : {2, 10},
         tax_rate           : {Q(1, 5)},
         growth_rate        : {Zero, Q(1, 2)},
         exit_multiple      : {Q(8, 1)},
         exit_cost_rate     : {Q(1, 10)},
         base_fixed_costs   : {Q(100, 1)},
         variable_cost_rate : {Q(1, 10)},
         horizon_years      : 1..MaxHorizon] :
        inp.loan_years = 1 => (inp.debt_ratio # Zero /\ inp.deprec_years = 10)}

ExampleInputs ==
    [total_investment |-> Q(4400, 1), debt_ratio |-> Q(1, 2),
     interest_rate |-> Q(1, 5), loan_years |-> 2, amortizable_share |-> Q(1, 2),
     deprec_years |-> 10, tax_rate |-> Q(1, 5), growth_rate |-> Zero,
     exit_multiple |-> Q(8, 1), exit_cost_rate |-> Q(1, 10),
     base_fixed_costs |-> Q(100, 1), variable_cost_rate |-> Q(1, 10),
     horizon_years |-> 1]

\* A pricing sold by the night only.
NightOnly(price) ==
    [price_per_night |-> price, price_per_week |-> Zero, price_per_month |-> Zero,
     share_nightly |-> One, share_weekly |-> Zero, share_monthly |-> Zero]

ExampleRoomTypes ==
    << [key |-> "premium", value |-> RoomTypeOf("premium")],
       [key |-> "dortoir", value |-> RoomTypeOf("dortoir")] >>

\* Two seasons; "premium" is 95% full in winter, "dortoir" is closed in summer.
ExampleSeasonsConfig ==
    << [key |-> "hiver",
        value |-> [days |-> 10,
                   occupancy_base |-> ("premium" :> Q(95, 100)) @@ ("dortoir" :> Q(1, 2)),
                   pricing_base |-> ("premium" :> NightOnly(Q(10, 1)))
                                        @@ ("dortoir" :> NightOnly(Q(2, 1)))]],
       [key |-> "ete",
        value |-> [days |-> 20,
                   occupancy_base |-> ("premium" :> Q(1, 2)),
                   pricing_base |-> ("premium" :> NightOnly(Q(10, 1)))]] >>

ScenarioNames == <<"Base", "Optimiste", "Pessimiste">>

ParamSamples ==
    { [occ_factor |-> One, price_factor |-> One, cost_factor |-> One],
      [occ_factor |-> Q(11, 10), price_factor |-> Q(11, 10), cost_factor |-> Q(9, 10)],
      [occ_factor |-> Q(9, 10), price_factor |-> Q(9, 10), cost_factor |-> Q(11, 10)],
      [occ_factor |-> Zero, price_factor |-> One, cost_factor |-> One] }

\* scenario_params: the three scenarios in the order of the dict literal,
\* each with any of the sampled factors.
ScenarioParams ==
    { [i \in 1..Len(ScenarioNames) |-> [key |-> ScenarioNames[i], value |-> f[i]]] :
        f \in [1..Len(ScenarioNames) -> ParamSamples] }

\* The outputs of a run, and their value before the first run.
Outputs ==
    [results |-> scenario_results, cashflows |-> scenario_cashflows,
     dscr |-> scenario_dscr]

NoOutputs == [results |-> <<>>, cashflows |-> <<>>, dscr |-> <<>>]

\* The button is pressed at most this many times.
MaxLaunches == 2

\* The button is pressed: the statements before the scenario loop.
LaunchSimulation ==
    /\ main_pc = "idle"
    /\ run' = RunSetup(main_inputs)
    /\ scenario_results' = <<>>
    /\ scenario_cashflows' = <<>>
    /\ scenario_dscr' = <<>>
    /\ scenario_idx' = 0
    /\ main_pc' = "scenarios"
    /\ launches' = launches + 1
    /\ UNCHANGED <<main_inputs, main_room_types, seasons_base_config,
                   scenario_params, scen, previous_outputs>>
    /\ UNCHANGED <<pricing_vars, revenue_vars, amort_vars, irr_vars, config_vars>>

\* An iteration of the scenario loop begins: the seasons of the scenario are
\* built and simulate_annual_revenue is called on them.
BeginScenario ==
    /\ main_pc = "scenarios"
    /\ scenario_idx < Len(scenario_params)
    /\ LET item == scenario_params[scenario_idx + 1]
       IN  /\ scen' = ScenarioRevenue(main_room_types, seasons_base_config, scen,
                                      item.key, item.value)
           /\ seasons_base_config' = BaseConfigAfter(seasons_base_config, item.value)
    /\ main_pc' = "charges"
    /\ UNCHANGED <<main_inputs, main_room_types, scenario_params, run, scenario_idx,
                   scenario_results, scenario_cashflows, scenario_dscr>>
    /\ UNCHANGED <<launches, previous_outputs>>
    /\ UNCHANGED <<pricing_vars, revenue_vars, amort_vars, irr_vars, config_vars>>

\* The charges of year 1, then the cash-flow series is started with the
\* equity outlay.
ComputeCharges ==
    /\ main_pc = "charges"
    /\ scen' = ScenarioCharges(main_inputs, run, scen)
    /\ main_pc' = "years"
    /\ UNCHANGED <<main_inputs, main_room_types, seasons_base_config,
                   scenario_params, run, scenario_idx, scenario_results,
                   scenario_cashflows, scenario_dscr>>
    /\ UNCHANGED <<launches, previous_outputs>>
    /\ UNCHANGED <<pricing_vars, revenue_vars, amort_vars, irr_vars, config_vars>>

\* for year in range(1, horizon_years + 1): ...
ProjectYear ==
    /\ main_pc = "years"
    /\ ProjLoopContinues(scen.year, main_inputs.horizon_years)
    /\ scen' = YearStep(main_inputs, run, scen)
    /\ UNCHANGED <<main_inputs, main_room_types, seasons_base_config,
                   scenario_params, run, scenario_idx, scenario_results,
                   scenario_cashflows, scenario_dscr, main_pc>>
    /\ UNCHANGED <<launches, previous_outputs>>
    /\ UNCHANGED <<pricing_vars, revenue_vars, amort_vars, irr_vars, config_vars>>

\* After the year loop: irr, scenario_results[...], scenario_cashflows[...],
\* scenario_dscr[...], and on to the next scenario.
StoreScenario ==
    /\ main_pc = "years"
    /\ ~ProjLoopContinues(scen.year, main_inputs.horizon_years)
    /\ scenario_results' =
           DictSet(scenario_results, scen.scenario_name, ScenarioResult(scen))
    /\ scenario_cashflows' =
           DictSet(scenario_cashflows, scen.scenario_name,
                   CashflowRows(main_inputs.horizon_years, scen.cashflows))
    /\ scenario_dscr' = DictSet(scenario_dscr, scen.scenario_name, scen.dscr_rows)
    /\ scenario_idx' = scenario_idx + 1
    /\ main_pc' = "scenarios"
    /\ UNCHANGED <<main_inputs, main_room_types, seasons_base_config,
                   scenario_params, run, scen>>
    /\ UNCHANGED <<launches, previous_outputs>>
    /\ UNCHANGED <<pricing_vars, revenue_vars, amort_vars, irr_vars, config_vars>>

\* The scenario loop is over.
FinishRun ==
    /\ main_pc = "scenarios"
    /\ scenario_idx = Len(scenario_params)
    /\ main_pc' = "done"
    /\ UNCHANGED <<main_inputs, main_room_types, seasons_base_config,
                   scenario_params, run, scenario_idx, scen, scenario_results,
                   scenario_cashflows, scenario_dscr>>
    /\ UNCHANGED <<launches, previous_outputs>>
    /\ UNCHANGED <<pricing_vars, revenue_vars, amort_vars, irr_vars, config_vars>>

\* The button is pressed again on the same inputs once a run is over. The
\* variables keep what the previous run left in them until the statements of
\* the new run assign them.
LaunchAgain ==
    /\ main_pc = "done"
    /\ launches < MaxLaunches
    /\ previous_outputs' = Outputs
    /\ run' = RunSetup(main_inputs)
    /\ scenario_results' = <<>>
    /\ scenario_cashflows' = <<>>
    /\ scenario_dscr' = <<>>
    /\ scenario_idx' = 0
    /\ main_pc' = "scenarios"
    /\ launches' = launches + 1
    /\ UNCHANGED <<main_inputs, main_room_types, seasons_base_config,
                   scenario_params, scen>>
    /\ UNCHANGED <<pricing_vars, revenue_vars, amort_vars, irr_vars, config_vars>>

----------------------------------------------------------------------------
(* ConfigLoader: load_config_from_excel and its deep_update.  A config is  *)
(* a tree: a dict is an ordered sequence of [key, value] pairs, a value is *)
(* a leaf (a number, val) or a dict (its items).                           *)

Leaf(v) == [is_dict |-> FALSE, val |-> v, items |-> <<>>]
Dict(items) == [is_dict |-> TRUE, val |-> 0, items |-> items]
Item(k, node) == [key |-> k, value |-> node]

\* Mutant of MergesInto: no value is merged, every supplied value replaces
\* what the defaults hold under its key.
MergesInto_never(d, k, v) == FALSE

\* isinstance(v, dict) and k in d and isinstance(d[k], dict)
MergesInto(d, k, v) == v.is_dict /\ DictHas(d, k) /\ DictGet(d, k).is_dict

RECURSIVE deep_update(_, _)
RECURSIVE UpdateItems(_, _, _)

\* The body of `for k, v in u.items()` for one item.
UpdateItem(d, k, v) ==
    IF MergesInto(d, k, v)
    THEN DictSet(d, k, Dict(deep_update(DictGet(d, k).items, v.items)))
    ELSE DictSet(d, k, v)

\* The loop from item i of u on.
UpdateItems(d, u, i) ==
    IF i > Len(u) THEN d
    ELSE UpdateItems(UpdateItem(d, u[i].key, u[i].value), u, i + 1)

\* deep_update(d, u): d after the loop, which is also what is returned.
deep_update(d, u) == UpdateItems(d, u, 1)

\* get_default_config(), cut down to three sections: a flat one, one of
\* records and the seasons with their rooms. Numbers are in hundredths.
DefaultConfig ==
    << Item("fiscalite_comptable",
            Dict(<< Item("tax_rate", Leaf(20)), Item("deprec_years", Leaf(2500)) >>)),
       Item("scenarios",
            Dict(<< Item("Base", Dict(<< Item("occ_factor", Leaf(100)),
                                         Item("cost_factor", Leaf(100)) >>)),
                    Item("Pessimiste", Dict(<< Item("occ_factor", Leaf(90)),
                                               Item("cost_factor", Leaf(105)) >>)) >>)),
       Item("seasons",
            Dict(<< Item("hiver",
                         Dict(<< Item("days", Leaf(9000)),
                                 Item("rooms",
                                      Dict(<< Item("premium",
                                                   Dict(<< Item("occupancy_base", Leaf(85)),
                                                           Item("price_per_night", Leaf(15000)) >>)),
                                              Item("dortoir",
                                                   Dict(<< Item("occupancy_base", Leaf(90)),
                                                           Item("price_per_night", Leaf(3800)) >>))
                                           >>)) >>)) >>)) >>

\* The sheet "fiscalite_comptable": absent, empty, or rows of key and value.
FiscSheets ==
    { <<>>,
      << Item("fiscalite_comptable", Dict(<<>>)) >>,
      << Item("fiscalite_comptable", Dict(<< Item("tax_rate", Leaf(30)) >>)) >>,
      << Item("fiscalite_comptable",
              Dict(<< Item("deprec_years", Leaf(1000)), Item("tax_rate", Leaf(30)) >>)) >>,
      << Item("fiscalite_comptable", Dict(<< Item("taux", Leaf(5)) >>)) >> }

\* A row of the sheet "scenarios": the three factors (two of them here).
ScenarioRow(name, occ, cost) ==
    Item(name, Dict(<< Item("occ_factor", Leaf(occ)), Item("cost_factor", Leaf(cost)) >>))

ScenarioSheets ==
    { <<>>,
      << Item("scenarios", Dict(<< ScenarioRow("Base", 95, 110) >>)) >>,
      << Item("scenarios", Dict(<< ScenarioRow("Stress", 50, 150) >>)) >>,
      << Item("scenarios", Dict(<< ScenarioRow("Stress", 50, 150),
                                   ScenarioRow("Base", 95, 110) >>)) >> }

\* seasons_struct[season] for the rows of the sheet "season_room" of a season.
SeasonStruct(season, days, rooms) ==
    Item(season, Dict(<< Item("days", Leaf(days)), Item("rooms", Dict(rooms)) >>))

RoomRow(room_type, occ, price) ==
    Item(room_type, Dict(<< Item("occupancy_base", Leaf(occ)),
                            Item("price_per_night", Leaf(price)) >>))

\* The sheets "seasons" and "season_room": none, one room of the default
\* season, a room the defaults do not have, a new season.
SeasonSheets ==
    { <<>>,
      << Item("seasons", Dict(<< SeasonStruct("hiver", 6000,
                                              << RoomRow("premium", 70, 12000) >>) >>)) >>,
      << Item("seasons", Dict(<< SeasonStruct("hiver", 9000,
                                              << RoomRow("studio", 80, 17000) >>) >>)) >>,
      << Item("seasons", Dict(<< SeasonStruct("ete", 9000,
                                              << RoomRow("premium", 50, 9000) >>),
                                 SeasonStruct("hiver", 9000,
                                              << RoomRow("dortoir", 60, 3000),
                                                 RoomRow("premium", 70, 12000) >>) >>)) >> }

\* cfg as the sections of load_config_from_excel build it, in their order.
LoadedConfigs ==
    { f \o sc \o se : f \in FiscSheets, sc \in ScenarioSheets, se \in SeasonSheets }

\* final_cfg = deep_update(base_cfg, cfg); return final_cfg. The dict of the
\* defaults is updated in place and returned.
MergeConfig ==
    /\ cfg_pc = "loaded"
    /\ final_cfg' = deep_update(base_cfg, cfg)
    /\ base_cfg' = final_cfg'
    /\ cfg_pc' = "returned"
    /\ UNCHANGED cfg
    /\ UNCHANGED <<pricing_vars, revenue_vars, amort_vars, irr_vars, main_vars>>

---------------------------------------------------------------------------------------------------------------------------------------------------
(* Specifications: one per component, the other components at rest.        *)

\* equivalent_nightly_rate called on every SeasonPricing of the input sets.
InitPricing ==
    /\ sp \in SeasonPricing
    /\ sp_call = NoCall
    /\ room_types = <<>>
    /\ seasons = <<>>
    /\ results = EmptyResults
    /\ season_idx = 0
    /\ rev_pc = "idle"
    /\ debt_amount = Zero
    /\ annual_rate = Zero
    /\ years = 0
    /\ horizon_years = 1
    /\ annual_payment = Zero
    /\ remaining = Zero
    /\ year = 0
    /\ schedule = <<>>
    /\ am_pc = "idle"
    /\ proj_year = 0
    /\ debt_t = NoDebtRead
    /\ cashflows = <<>>
    /\ low = Zero
    /\ high = Zero
    /\ mid = Zero
    /\ npv = Zero
    /\ irr_iter = 0
    /\ irr_pc = "idle"
    /\ irr_ret = IrrNone
    /\ main_inputs = ExampleInputs
    /\ main_room_types = <<>>
    /\ seasons_base_config = <<>>
    /\ scenario_params = <<>>
    /\ run = NoRun
    /\ scenario_idx = 0
    /\ scen = NoScenario
    /\ scenario_results = <<>>
    /\ scenario_cashflows = <<>>
    /\ scenario_dscr = <<>>
    /\ main_pc = "idle"
    /\ launches = 0
    /\ previous_outputs = NoOutputs
    /\ base_cfg = DefaultConfig
    /\ cfg = <<>>
    /\ final_cfg = <<>>
    /\ cfg_pc = "idle"

NextPricing == CallNightlyRate

SpecPricing == InitPricing /\ [][NextPricing]_vars

\* simulate_annual_revenue called on every inventory and season list.
InitRevenue ==
    /\ sp = ExamplePricing
    /\ sp_call = NoCall
    /\ room_types \in Inventories
    /\ seasons \in SeasonLists
    /\ results = EmptyResults
    /\ season_idx = 0
    /\ rev_pc = "idle"
    /\ debt_amount = Zero
    /\ annual_rate = Zero
    /\ years = 0
    /\ horizon_years = 1
    /\ annual_payment = Zero
    /\ remaining = Zero
    /\ year = 0
    /\ schedule = <<>>
    /\ am_pc = "idle"
    /\ proj_year = 0
    /\ debt_t = NoDebtRead
    /\ cashflows = <<>>
    /\ low = Zero
    /\ high = Zero
    /\ mid = Zero
    /\ npv = Zero
    /\ irr_iter = 0
    /\ irr_pc = "idle"
    /\ irr_ret = IrrNone
    /\ main_inputs = ExampleInputs
    /\ main_room_types = <<>>
    /\ seasons_base_config = <<>>
    /\ scenario_params = <<>>
    /\ run = NoRun
    /\ scenario_idx = 0
    /\ scen = NoScenario
    /\ scenario_results = <<>>
    /\ scenario_cashflows = <<>>
    /\ scenario_dscr = <<>>
    /\ main_pc = "idle"
    /\ launches = 0
    /\ previous_outputs = NoOutputs
    /\ base_cfg = DefaultConfig
    /\ cfg = <<>>
    /\ final_cfg = <<>>
    /\ cfg_pc = "idle"

NextRevenue == CallSimulate \/ SeasonIteration \/ ReturnResults

SpecRevenue == InitRevenue /\ [][NextRevenue]_vars

\* build_amortization_schedule called by main on every loan of the input
\* sets, and its schedule read over the projection horizon.
InitAmort ==
    /\ sp = ExamplePricing
    /\ sp_call = NoCall
    /\ room_types = <<>>
    /\ seasons = <<>>
    /\ results = EmptyResults
    /\ season_idx = 0
    /\ rev_pc = "idle"
    /\ debt_amount \in DebtValues
    /\ annual_rate \in RateValues
    /\ years \in YearValues
    /\ horizon_years \in 1..MaxHorizon
    /\ annual_payment = Zero
    /\ remaining = Zero
    /\ year = 0
    /\ schedule = <<>>
    /\ am_pc = "called"
    /\ proj_year = 0
    /\ debt_t = NoDebtRead
    /\ cashflows = <<>>
    /\ low = Zero
    /\ high = Zero
    /\ mid = Zero
    /\ npv = Zero
    /\ irr_iter = 0
    /\ irr_pc = "idle"
    /\ irr_ret = IrrNone
    /\ main_inputs = ExampleInputs
    /\ main_room_types = <<>>
    /\ seasons_base_config = <<>>
    /\ scenario_params = <<>>
    /\ run = NoRun
    /\ scenario_idx = 0
    /\ scen = NoScenario
    /\ scenario_results = <<>>
    /\ scenario_cashflows = <<>>
    /\ scenario_dscr = <<>>
    /\ main_pc = "idle"
    /\ launches = 0
    /\ previous_outputs = NoOutputs
    /\ base_cfg = DefaultConfig
    /\ cfg = <<>>
    /\ final_cfg = <<>>
    /\ cfg_pc = "idle"

NextAmort ==
    ReturnEmpty \/ StartSchedule \/ AppendRow \/ ReturnSchedule \/ ReadDebtOfYear

SpecAmort == InitAmort /\ [][NextAmort]_vars

\* compute_irr called on every series of the input set.
InitIrr ==
    /\ sp = ExamplePricing
    /\ sp_call = NoCall
    /\ room_types = <<>>
    /\ seasons = <<>>
    /\ results = EmptyResults
    /\ season_idx = 0
    /\ rev_pc = "idle"
    /\ debt_amount = Zero
    /\ annual_rate = Zero
    /\ years = 0
    /\ horizon_years = 1
    /\ annual_payment = Zero
    /\ remaining = Zero
    /\ year = 0
    /\ schedule = <<>>
    /\ am_pc = "idle"
    /\ proj_year = 0
    /\ debt_t = NoDebtRead
    /\ cashflows \in CashflowSeries
    /\ low = Zero
    /\ high = Zero
    /\ mid = Zero
    /\ npv = Zero
    /\ irr_iter = 0
    /\ irr_pc = "called"
    /\ irr_ret = IrrNone
    /\ main_inputs = ExampleInputs
    /\ main_room_types = <<>>
    /\ seasons_base_config = <<>>
    /\ scenario_params = <<>>
    /\ run = NoRun
    /\ scenario_idx = 0
    /\ scen = NoScenario
    /\ scenario_results = <<>>
    /\ scenario_cashflows = <<>>
    /\ scenario_dscr = <<>>
    /\ main_pc = "idle"
    /\ launches = 0
    /\ previous_outputs = NoOutputs
    /\ base_cfg = DefaultConfig
    /\ cfg = <<>>
    /\ final_cfg = <<>>
    /\ cfg_pc = "idle"

NextIrr ==
    ReturnNone \/ StartBisection \/ BisectionStep \/ ReturnLastMid

SpecIrr == InitIrr /\ [][NextIrr]_vars

\* The control skeleton of a step of compute_irr: the position moves on, or one
\* more NPV is evaluated. Every step of NextIrr is such a step, and one is
\* possible exactly until the call returns.
IrrAdvance ==
    /\ irr_pc \in {"called", "loop"}
    /\ irr_pc' \in {"loop", "returned"}
    /\ irr_iter' \in {irr_iter, irr_iter + 1}
    /\ <<irr_pc', irr_iter'>> # <<irr_pc, irr_iter>>

\* The same with the call running on until it returns: the function is
\* synchronous, nothing suspends it between two statements.
SpecIrrLive == SpecIrr /\ WF_<<irr_pc, irr_iter>>(IrrAdvance)

\* compute_irr with its rates held in floats of MantissaBits bits.
NextIrrFloat ==
    ReturnNone \/ StartBisectionFloat \/ BisectionStepFloat \/ ReturnLastMid

SpecIrrFloat == InitIrr /\ [][NextIrrFloat]_vars

\* The launch button pressed on every input of the input sets.
InitMain ==
    /\ sp = ExamplePricing
    /\ sp_call = NoCall
    /\ room_types = <<>>
    /\ seasons = <<>>
    /\ results = EmptyResults
    /\ season_idx = 0
    /\ rev_pc = "idle"
    /\ debt_amount = Zero
    /\ annual_rate = Zero
    /\ years = 0
    /\ horizon_years = 1
    /\ annual_payment = Zero
    /\ remaining = Zero
    /\ year = 0
    /\ schedule = <<>>
    /\ am_pc = "idle"
    /\ proj_year = 0
    /\ debt_t = NoDebtRead
    /\ cashflows = <<>>
    /\ low = Zero
    /\ high = Zero
    /\ mid = Zero
    /\ npv = Zero
    /\ irr_iter = 0
    /\ irr_pc = "idle"
    /\ irr_ret = IrrNone
    /\ main_inputs \in MainInputs
    /\ main_room_types = ExampleRoomTypes
    /\ seasons_base_config = ExampleSeasonsConfig
    /\ scenario_params \in ScenarioParams
    /\ run = NoRun
    /\ scenario_idx = 0
    /\ scen = NoScenario
    /\ scenario_results = <<>>
    /\ scenario_cashflows = <<>>
    /\ scenario_dscr = <<>>
    /\ main_pc = "idle"
    /\ launches = 0
    /\ previous_outputs = NoOutputs
    /\ base_cfg = DefaultConfig
    /\ cfg = <<>>
    /\ final_cfg = <<>>
    /\ cfg_pc = "idle"

NextMain ==
    \/ LaunchSimulation
    \/ BeginScenario
    \/ ComputeCharges
    \/ ProjectYear
    \/ StoreScenario
    \/ FinishRun

SpecMain == InitMain /\ [][NextMain]_vars

\* The launch button pressed, and pressed again when the run is over, with
\* the "Base" scenario at its neutral factors.
InitRerun ==
    /\ sp = ExamplePricing
    /\ sp_call = NoCall
    /\ room_types = <<>>
    /\ seasons = <<>>
    /\ results = EmptyResults
    /\ season_idx = 0
    /\ rev_pc = "idle"
    /\ debt_amount = Zero
    /\ annual_rate = Zero
    /\ years = 0
    /\ horizon_years = 1
    /\ annual_payment = Zero
    /\ remaining = Zero
    /\ year = 0
    /\ schedule = <<>>
    /\ am_pc = "idle"
    /\ proj_year = 0
    /\ debt_t = NoDebtRead
    /\ cashflows = <<>>
    /\ low = Zero
    /\ high = Zero
    /\ mid = Zero
    /\ npv = Zero
    /\ irr_iter = 0
    /\ irr_pc = "idle"
    /\ irr_ret = IrrNone
    /\ main_inputs \in MainInputs
    /\ main_room_types = ExampleRoomTypes
    /\ seasons_base_config = ExampleSeasonsConfig
    /\ scenario_params \in {p \in ScenarioParams : p[1].value = NoParams}
    /\ run = NoRun
    /\ scenario_idx = 0
    /\ scen = NoScenario
    /\ scenario_results = <<>>
    /\ scenario_cashflows = <<>>
    /\ scenario_dscr = <<>>
    /\ main_pc = "idle"
    /\ launches = 0
    /\ previous_outputs = NoOutputs
    /\ base_cfg = DefaultConfig
    /\ cfg = <<>>
    /\ final_cfg = <<>>
    /\ cfg_pc = "idle"

NextRerun == NextMain \/ LaunchAgain

SpecRerun == InitRerun /\ [][NextRerun]_vars

\* load_config_from_excel has read the file and called get_default_config().
InitConfig ==
    /\ sp = ExamplePricing
    /\ sp_call = NoCall
    /\ room_types = <<>>
    /\ seasons = <<>>
    /\ results = EmptyResults
    /\ season_idx = 0
    /\ rev_pc = "idle"
    /\ debt_amount = Zero
    /\ annual_rate = Zero
    /\ years = 0
    /\ horizon_years = 1
    /\ annual_payment = Zero
    /\ remaining = Zero
    /\ year = 0
    /\ schedule = <<>>
    /\ am_pc = "idle"
    /\ proj_year = 0
    /\ debt_t = NoDebtRead
    /\ cashflows = <<>>
    /\ low = Zero
    /\ high = Zero
    /\ mid = Zero
    /\ npv = Zero
    /\ irr_iter = 0
    /\ irr_pc = "idle"
    /\ irr_ret = IrrNone
    /\ main_inputs = ExampleInputs
    /\ main_room_types = <<>>
    /\ seasons_base_config = <<>>
    /\ scenario_params = <<>>
    /\ run = NoRun
    /\ scenario_idx = 0
    /\ scen = NoScenario
    /\ scenario_results = <<>>
    /\ scenario_cashflows = <<>>
    /\ scenario_dscr = <<>>
    /\ main_pc = "idle"
    /\ launches = 0
    /\ previous_outputs = NoOutputs
    /\ base_cfg = DefaultConfig
    /\ cfg \in LoadedConfigs
    /\ final_cfg = <<>>
    /\ cfg_pc = "loaded"

NextConfig == MergeConfig

SpecConfig == InitConfig /\ [][NextConfig]_vars

----------------------------------------------------------------------------
(* Properties of the PricingModel, checked under SpecPricing.              *)

\* C1: when the three shares sum to a value <= 0, whatever the prices,
\* equivalent_nightly_rate returns 0 and divides nothing by the share total.
C1_DegenerateMixReturnsZero ==
    (sp_call.done /\ RLe(TotalShare(sp), Zero))
        => (sp_call.rate = Zero /\ sp_call.divisors = <<>>)

\* The call returned for shares -0.3, 0.3, 0 (sum 0) and non-zero prices.
C1_Witness ==
    /\ sp_call.done
    /\ TotalShare(sp) = Zero
    /\ sp.share_nightly = Q(-3, 10)
    /\ sp.price_per_night = Q(150, 1)
    /\ sp.price_per_week = Q(950, 1)

\* C2: when the shares sum to a positive value, multiplying the three shares
\* by the same positive constant k leaves the returned rate unchanged.
C2_ShareScalingInvariant ==
    (sp_call.done /\ RLt(Zero, TotalShare(sp)))
        => \A k \in ScaleFactors :
              equivalent_nightly_rate(ScaleShares(sp, k)) = sp_call.rate

\* The call returned a non-zero rate for the mix 0.6/0.3/0.1.
C2_Witness ==
    /\ sp_call.done
    /\ sp = ExamplePricing
    /\ sp_call.rate # Zero
    /\ \E k \in ScaleFactors : ScaleShares(sp, k) # sp

\* C3: when the shares sum to total > 0 the returned rate is
\* (sn/total)*night + (sw/total)*(week/7) + (sm/total)*(month/30); a tenor of
\* price 0 contributes 0 and its share still counts in total; the example
\* 150/950/0 with 0.6/0.3/0.1 gives 915/7, about 130.71.
C3_BlendedRateFormula ==
    (sp_call.done /\ RLt(Zero, TotalShare(sp))) =>
        LET total == TotalShare(sp)
            wm == NightsPerWeek * NightsPerMonth
            weighted(share, price, k) == RMul(Q(k, 1), RMul(share, price))
        IN  /\ RMul(Q(wm, 1), RMul(sp_call.rate, total))
                 = RAdd(RAdd(weighted(sp.share_nightly, sp.price_per_night, wm),
                             weighted(sp.share_weekly, sp.price_per_week,
                                      NightsPerMonth)),
                        weighted(sp.share_monthly, sp.price_per_month,
                                 NightsPerWeek))
            /\ (sp.price_per_month = Zero /\ sp.price_per_week = Zero)
                  => RMul(sp_call.rate, total)
                        = RMul(sp.share_nightly, sp.price_per_night)
            /\ sp = ExamplePricing
                  => /\ sp_call.rate = Q(915, 7)
                     /\ RLe(Q(13071, 100), sp_call.rate)
                     /\ RLt(sp_call.rate, Q(13072, 100))

\* The call returned for the example, whose monthly price is 0 with share 0.1.
C3_Witness ==
    /\ sp_call.done
    /\ sp = ExamplePricing
    /\ sp.price_per_month = Zero
    /\ RLt(Zero, sp.share_monthly)

----------------------------------------------------------------------------
(* Properties of the RevenueAggregator, checked under SpecRevenue.  They   *)
(* are stated of the season the loop has just processed, seasons[season_idx], *)
(* so that they cover every season of every input list.                    *)

\* The per_season entry written by the last iteration.
LastEntry == DictGet(results.per_season, seasons[season_idx].name)

\* The indices of the room types that have a pricing entry in season s.
PricedRooms(s) == {j \in 1..Len(room_types) : room_types[j].key \in DOMAIN s.pricing}

\* C4: for every room type with a pricing entry in the season, the breakdown
\* reports total_room_nights = count * days, occupied_nights =
\* total_room_nights * occupancy_rate and revenue = occupied_nights * blended
\* rate, the occupancy being the season's value as given, above 1 included;
\* 6 rooms, 90 days and occupancy 0.85 give 459 occupied nights.
C4_RoomEntryFigures ==
    season_idx >= 1 =>
        LET s == seasons[season_idx]
            bd == LastEntry.by_room_type
        IN  \A j \in PricedRooms(s) :
               LET nm == room_types[j].key
                   cnt == room_types[j].value.count
                   e == DictGet(bd, nm)
               IN  /\ DictHas(bd, nm)
                   /\ e.total_room_nights = cnt * s.days
                   /\ nm \in DOMAIN s.occupancy => e.occupancy_rate = s.occupancy[nm]
                   /\ nm \notin DOMAIN s.occupancy => e.occupancy_rate = Zero
                   /\ e.occupied_nights = RMul(Q(cnt * s.days, 1), e.occupancy_rate)
                   /\ e.equivalent_nightly_rate = equivalent_nightly_rate(s.pricing[nm])
                   /\ e.revenue = RMul(e.occupied_nights, e.equivalent_nightly_rate)
                   /\ (cnt = 6 /\ s.days = 90 /\ e.occupancy_rate = Q(85, 100))
                         => e.occupied_nights = Q(459, 1)

\* Returned: the first season reports 459 occupied nights for 6 rooms over 90
\* days at 0.85, the second an occupancy of 1.2 and more occupied nights than
\* room nights.
C4_Witness ==
    /\ rev_pc = "returned"
    /\ Len(seasons) = 2
    /\ Len(results.per_season) = 2
    /\ LET b1 == results.per_season[1].value.by_room_type
           b2 == results.per_season[2].value.by_room_type
       IN  /\ DictHas(b1, "premium") /\ DictHas(b2, "premium")
           /\ DictGet(b1, "premium").occupied_nights = Q(459, 1)
           /\ DictGet(b2, "premium").occupancy_rate = Q(6, 5)
           /\ RLt(Q(DictGet(b2, "premium").total_room_nights, 1),
                  DictGet(b2, "premium").occupied_nights)

\* The revenue of season s computed from the inputs: the priced room types only.
PricedRevenue(s) ==
    LET idx == PricedRooms(s)
        term(j) ==
            LET nm == room_types[j].key
                occ == IF nm \in DOMAIN s.occupancy THEN s.occupancy[nm] ELSE Zero
            IN  RMul(RMul(Q(room_types[j].value.count * s.days, 1), occ),
                     equivalent_nightly_rate(s.pricing[nm]))
    IN  RSum([j \in 1..Len(room_types) |-> IF j \in idx THEN term(j) ELSE Zero])

\* C5: a room type of the inventory without a pricing entry in a season is
\* absent from that season's by_room_type, adds nothing to the season revenue
\* or to the total, and raises no error; the priced room types of the season
\* are all reported.
C5_UnpricedRoomSkipped ==
    season_idx >= 1 =>
        LET s == seasons[season_idx]
            bd == LastEntry.by_room_type
        IN  /\ \A j \in 1..Len(room_types) :
                  DictHas(bd, room_types[j].key) <=> j \in PricedRooms(s)
            /\ Len(bd) = Cardinality(PricedRooms(s))
            /\ LastEntry.revenue = PricedRevenue(s)
            /\ results.total_revenue
                  = RSum([i \in 1..season_idx |-> PricedRevenue(seasons[i])])
            /\ ~IsErr(results.total_revenue)

\* A season that prices "premium" only was processed with both room types in
\* the inventory: its breakdown holds "premium" alone, with a revenue.
C5_Witness ==
    /\ season_idx >= 1
    /\ Len(room_types) = 2
    /\ DOMAIN seasons[season_idx].pricing = {"premium"}
    /\ DictKeys(LastEntry.by_room_type) = <<"premium">>
    /\ RLt(Zero, LastEntry.revenue)

\* Every reordering of the list ss.
Reorderings(ss) ==
    {[i \in 1..Len(ss) |-> ss[f[i]]] : f \in Permutations(1..Len(ss))}

\* C6: per_season lists the input seasons in the order in which they were
\* given, and total_revenue is the same for every permutation of the list.
C6_SeasonOrderPreserved ==
    rev_pc = "returned" =>
        /\ DictKeys(results.per_season) = [i \in 1..Len(seasons) |-> seasons[i].name]
        /\ \A ss \in Reorderings(seasons) :
              simulate_annual_revenue(room_types, ss).total_revenue
                  = results.total_revenue

\* C27: the result returned is consistent with itself: total_revenue is the
\* sum of the revenues of the entries of per_season, and the revenue of each
\* entry is the sum of the revenues of its by_room_type. Violated by a list
\* with two seasons of the same name: per_season keeps one entry for them,
\* total_revenue counts both.
C27_TotalIsSumOfSeasons ==
    rev_pc = "returned" =>
        /\ results.total_revenue
               = RSum([i \in 1..Len(results.per_season) |->
                          results.per_season[i].value.revenue])
        /\ \A i \in 1..Len(results.per_season) :
              LET e == results.per_season[i].value
              IN  e.revenue = RSum([j \in 1..Len(e.by_room_type) |->
                                       e.by_room_type[j].value.revenue])

----------------------------------------------------------------------------
(* Properties of the AmortizationScheduler, checked under SpecAmort.       *)

InvalidLoan == RLe(debt_amount, Zero) \/ RLt(annual_rate, Zero) \/ years <= 0

\* C7: with debt_amount <= 0, annual_rate < 0 or years <= 0 the schedule
\* returned is empty and nothing is raised (no payment is computed, the loop
\* is not entered), and every projection year read from it has zero interest,
\* principal, debt service and remaining debt.
C7_InvalidLoanEmptySchedule ==
    InvalidLoan =>
        /\ am_pc \in {"called", "returned"}
        /\ schedule = <<>>
        /\ ~IsErr(annual_payment)
        /\ proj_year >= 1 =>
              /\ debt_t.interest_t = Zero
              /\ debt_t.principal_t = Zero
              /\ debt_t.debt_service_t = Zero
              /\ debt_t.remaining_debt_t = Zero

\* A loan of zero years on a positive debt returned, and the projection read
\* its second year.
C7_Witness ==
    /\ am_pc = "returned"
    /\ years = 0
    /\ RLt(Zero, debt_amount)
    /\ proj_year = 2

\* C8: for debt_amount > 0, annual_rate >= 0 and years >= 1 the schedule
\* returned has exactly `years` rows, whose year fields are 1, 2, ..., years.
C8_OneRowPerYear ==
    (am_pc = "returned" /\ ~InvalidLoan) =>
        /\ Len(schedule) = years
        /\ \A i \in 1..Len(schedule) : schedule[i].year = i

\* A loan over three years or more returned.
C8_Witness ==
    /\ am_pc = "returned"
    /\ ~InvalidLoan
    /\ years >= 3

\* C9: in every non-empty schedule returned, at rate 0 or above, the
\* principal amounts sum to debt_amount and the last row's remaining balance
\* is 0.
C9_PrincipalRepaysDebt ==
    (am_pc = "returned" /\ schedule # <<>>) =>
        /\ RSum([i \in 1..Len(schedule) |-> schedule[i].principal]) = debt_amount
        /\ schedule[Len(schedule)].remaining = Zero

\* An interest-bearing loan over three years or more returned.
C9_Witness ==
    /\ am_pc = "returned"
    /\ Len(schedule) >= 3
    /\ RLt(Zero, annual_rate)
    /\ RLt(Zero, schedule[1].interest)

\* C10: with annual_rate = 0 and debt_amount > 0 every row has
\* payment = debt_amount / years, interest = 0 and principal = payment.
C10_ZeroRateStraightLine ==
    (annual_rate = Zero /\ RLt(Zero, debt_amount)) =>
        \A i \in 1..Len(schedule) :
            /\ RMul(schedule[i].payment, Q(years, 1)) = debt_amount
            /\ schedule[i].interest = Zero
            /\ schedule[i].principal = schedule[i].payment

\* An interest-free loan over two years or more returned.
C10_Witness ==
    /\ am_pc = "returned"
    /\ annual_rate = Zero
    /\ RLt(Zero, debt_amount)
    /\ Len(schedule) >= 2

\* C11: in every schedule the remaining balance never increases from one row
\* to the next, is never above debt_amount and is never negative.
C11_BalanceNonIncreasing ==
    \A i \in 1..Len(schedule) :
        /\ RLe(Zero, schedule[i].remaining)
        /\ RLe(schedule[i].remaining, debt_amount)
        /\ i > 1 => RLe(schedule[i].remaining, schedule[i - 1].remaining)

\* An interest-bearing schedule of three rows or more returned, its balance
\* strictly falling to 0.
C11_Witness ==
    /\ am_pc = "returned"
    /\ Len(schedule) >= 3
    /\ RLt(Zero, annual_rate)
    /\ RLt(schedule[2].remaining, schedule[1].remaining)
    /\ RLt(schedule[1].remaining, debt_amount)

\* C23: the debt figures the projection reads for year t are those of
\* schedule row t when t is within the schedule (interest, principal,
\* remaining balance, and the payment as debt service); beyond the schedule
\* interest, principal and debt service are 0 and the remaining debt is the
\* remaining balance of the last row, or 0 when the schedule is empty.
C23_DebtFiguresOfYear ==
    (am_pc = "returned" /\ proj_year >= 1) =>
        IF proj_year <= Len(schedule)
        THEN LET row == schedule[proj_year]
             IN  /\ row.year = proj_year
                 /\ debt_t.interest_t = row.interest
                 /\ debt_t.principal_t = row.principal
                 /\ debt_t.remaining_debt_t = row.remaining
                 /\ debt_t.debt_service_t = row.payment
        ELSE /\ debt_t.interest_t = Zero
             /\ debt_t.principal_t = Zero
             /\ debt_t.debt_service_t = Zero
             /\ schedule = <<>> => debt_t.remaining_debt_t = Zero
             /\ schedule # <<>>
                  => debt_t.remaining_debt_t = schedule[Len(schedule)].remaining

\* Year 3 was read from the schedule of a two-year loan at interest: no debt
\* service any more, the balance of the last row as remaining debt.
C23_Witness ==
    /\ am_pc = "returned"
    /\ Len(schedule) = 2
    /\ RLt(Zero, schedule[2].interest)
    /\ RLt(Zero, schedule[2].payment)
    /\ proj_year = 3
    /\ debt_t.debt_service_t = Zero
    /\ debt_t.interest_t = Zero
    /\ debt_t.remaining_debt_t = schedule[2].remaining

\* Year 2 was read from the schedule of a three-year loan: the figures of
\* row 2, with a balance still outstanding.
C23_WithinSchedule ==
    /\ am_pc = "returned"
    /\ Len(schedule) = 3
    /\ proj_year = 2
    /\ debt_t.debt_service_t = schedule[2].payment
    /\ RLt(Zero, debt_t.remaining_debt_t)

----------------------------------------------------------------------------
(* Properties of the IRRSolver, checked under SpecIrr and SpecIrrLive.     *)

\* C12: when every cash flow is >= 0 or every cash flow is <= 0 (the empty
\* and the all-zero series included), compute_irr returns None and has
\* evaluated no NPV: no bisection step was taken.
C12_NoSignChangeReturnsNone ==
    (/\ irr_pc = "returned"
     /\ \/ \A t \in 1..Len(cashflows) : cashflows[t].n >= 0
        \/ \A t \in 1..Len(cashflows) : cashflows[t].n <= 0)
        => (irr_ret = IrrNone /\ irr_iter = 0 /\ low = Zero /\ high = Zero)

\* The call returned None for [100, 60, 60].
C12_Witness ==
    /\ irr_pc = "returned"
    /\ cashflows = <<Q(100, 1), Q(60, 1), Q(60, 1)>>
    /\ irr_ret = IrrNone
    /\ irr_iter = 0

\* A conventional series whose root lies strictly inside (-0.9, 1.0): a
\* negative first flow, later flows >= 0 with one of them positive, NPV
\* positive at -0.9 and negative at 1.0.
ConventionalInRange(cfs) ==
    /\ Len(cfs) >= 2
    /\ cfs[1].n < 0
    /\ \A t \in 2..Len(cfs) : cfs[t].n >= 0
    /\ \E t \in 2..Len(cfs) : cfs[t].n > 0
    /\ RLt(Zero, NPV(cfs, IrrLow))
    /\ RLt(NPV(cfs, IrrHigh), Zero)

C14_SignChangeConverges ==
    (/\ irr_pc = "returned"
     /\ \E t \in 1..Len(cashflows) : cashflows[t].n > 0
     /\ \E t \in 1..Len(cashflows) : cashflows[t].n < 0)
        => /\ ~irr_ret.none
           /\ \/ IsBelowTol(NPV(cashflows, irr_ret.rate))
              \/ /\ RLt(Zero, NPV(cashflows, low))
                 /\ RLt(NPV(cashflows, high), Zero)

\* C20: compute_irr always returns; it evaluates the NPV at most max_iter
\* times; it goes on only while |NPV| >= tol; a returned rate is the last
\* midpoint, returned because |NPV| < tol or because max_iter iterations
\* were made.
C20_IrrTerminates ==
    /\ <>(irr_pc = "returned")
    /\ [](irr_iter <= MaxIter)
    /\ []((irr_pc = "loop" /\ irr_iter > 0) => ~IsBelowTol(npv))
    /\ []((irr_pc = "returned" /\ ~irr_ret.none)
            => /\ irr_ret.rate = mid
               /\ npv = NPV(cashflows, mid)
               /\ IsBelowTol(npv) \/ irr_iter = MaxIter)

\* The call returned the last midpoint after max_iter iterations, none of
\* them within the tolerance.
C20_Witness ==
    /\ irr_pc = "returned"
    /\ irr_iter = MaxIter
    /\ ~IsBelowTol(npv)
    /\ irr_ret = IrrRate(mid)

\* The call returned the first midpoint 0.05, the root of [-100, 105].
C20_EarlyReturn ==
    /\ irr_pc = "returned"
    /\ irr_iter = 1
    /\ irr_ret = IrrRate(Q(1, 20))
    /\ npv = Zero

\* C28: every rate at which compute_irr evaluates the NPV, and every rate
\* it returns, lies strictly between -0.9 and 1.0; low <= mid <= high, and
\* while the loop runs the interval is the lower or the upper half of the one
\* before, low < high; 1 + rate is positive and the NPV is evaluated without
\* a division by zero. Violated in floats by [-60, 100, 100] and [-100, 105]:
\* the NPV is positive at every midpoint, low climbs to the float below 1.0,
\* low + high rounds to 2.0 and the rate evaluated and returned is 1.0.
C28_RatesStrictlyInside ==
    irr_iter >= 1 =>
        /\ RLt(FloatLow, mid)
        /\ RLt(mid, IrrHigh)
        /\ RLe(low, mid)
        /\ RLe(mid, high)
        /\ irr_pc = "loop" => (mid \in {low, high} /\ RLt(low, high))
        /\ RLt(Zero, RAdd(One, mid))
        /\ ~IsErr(npv)
        /\ (irr_pc = "returned" /\ ~irr_ret.none)
              => (RLt(FloatLow, irr_ret.rate) /\ RLt(irr_ret.rate, IrrHigh))

----------------------------------------------------------------------------
(* Properties of the ScenarioProjector, checked under SpecMain.            *)

\* C15: the occupancy a scenario hands to simulate_annual_revenue is
\* min(1.0, base occupancy * occ_factor) for every room type of every season,
\* for every occ_factor >= 0; it never exceeds 1.0, and neither does an
\* occupancy_rate the aggregator reports back.
C15_ScenarioOccupancyCapped ==
    main_pc \in {"charges", "years"} =>
        /\ RLe(Zero, scen.params.occ_factor)
        /\ \A i \in 1..Len(scen.seasons) :
             LET base_occ == seasons_base_config[i].value.occupancy_base
                 passed == scen.seasons[i].occupancy
             IN  /\ DOMAIN passed = DOMAIN base_occ
                 /\ \A rt \in DOMAIN passed :
                      LET scaled == RMul(base_occ[rt], scen.params.occ_factor)
                      IN  /\ RLe(passed[rt], One)
                          /\ passed[rt] = IF RLt(One, scaled) THEN One ELSE scaled
        /\ \A j \in 1..Len(scen.results.per_season) :
             LET rooms == scen.results.per_season[j].value.by_room_type
             IN  \A k \in 1..Len(rooms) : RLe(rooms[k].value.occupancy_rate, One)

\* A base occupancy of 0.95 scaled by 1.10 was handed over as 1.0.
C15_Witness ==
    /\ main_pc = "years"
    /\ scen.params.occ_factor = Q(11, 10)
    /\ seasons_base_config[1].value.occupancy_base["premium"] = Q(95, 100)
    /\ scen.seasons[1].occupancy["premium"] = One
    /\ scen.results.per_season[1].value.by_room_type[1].value.occupancy_rate = One

\* A row of the year table: a DSCR of CFADS / debt service when the debt
\* service is positive, none when it is 0.
DscrRowAsClaimed(row) ==
    IF RLt(Zero, row.Debt_service)
    THEN /\ ~row.DSCR.none
         /\ RMul(row.DSCR.value, row.Debt_service) = row.CFADS
    ELSE /\ row.Debt_service = Zero
         /\ row.DSCR.none

\* C16: in every row of every year table the DSCR is cfads_t / debt_service_t
\* when debt_service_t > 0 and None when it is 0, which is the case of every
\* year after the loan term and of every year when there is no debt.
C16_DscrNoneWithoutDebtService ==
    /\ \A k \in 1..Len(scen.dscr_rows) :
         /\ DscrRowAsClaimed(scen.dscr_rows[k])
         /\ (main_pc = "years" /\ k > Len(run.amort_schedule))
                => scen.dscr_rows[k].DSCR.none
    /\ \A i \in 1..Len(scenario_dscr) :
         \A k \in 1..Len(scenario_dscr[i].value) :
             /\ DscrRowAsClaimed(scenario_dscr[i].value[k])
             /\ k > Len(run.amort_schedule) => scenario_dscr[i].value[k].DSCR.none

\* A three-year table over a two-year loan: a DSCR in year 1, none in year 3.
C16_Witness ==
    /\ main_pc = "years"
    /\ Len(run.amort_schedule) = 2
    /\ Len(scen.dscr_rows) = 3
    /\ ~scen.dscr_rows[1].DSCR.none
    /\ RLt(Zero, scen.dscr_rows[1].DSCR.value)
    /\ scen.dscr_rows[3].DSCR.none
    /\ scen.dscr_rows[3].Debt_service = Zero

\* C17: the cash-flow series of a scenario has horizon_years + 1 entries, the
\* first one -(total_investment * (1 - debt_ratio)), entry t the fcfe_t of
\* year t in the order of the years (each year appends its fcfe_t and leaves
\* the earlier entries as they are); the year table has horizon_years rows.
C17_CashflowSeriesShape ==
    /\ [](\A i \in 1..Len(scenario_results) :
            LET cfs == scenario_results[i].value.cashflows
                rows == scenario_dscr[i].value
            IN  /\ Len(cfs) = main_inputs.horizon_years + 1
                /\ cfs[1] = RNeg(RMul(main_inputs.total_investment,
                                      RSub(One, main_inputs.debt_ratio)))
                /\ Len(rows) = main_inputs.horizon_years
                /\ \A t \in 1..Len(rows) : rows[t].Annee = t
                /\ Len(scenario_cashflows[i].value) = main_inputs.horizon_years + 1)
    /\ [](main_pc = "years" =>
            /\ Len(scen.cashflows) = scen.year + 1
            /\ Len(scen.dscr_rows) = scen.year
            /\ scen.year >= 1 => scen.cashflows[scen.year + 1] = scen.fig.fcfe_t)
    /\ [][(main_pc = "years" /\ main_pc' = "years") =>
            /\ scen'.year = scen.year + 1
            /\ \A t \in 1..Len(scen.cashflows) :
                 scen'.cashflows[t] = scen.cashflows[t]]_vars
    /\ [][(main_pc = "years" /\ main_pc' = "scenarios") =>
            /\ scen.year = main_inputs.horizon_years
            /\ DictGet(scenario_results', scen.scenario_name).cashflows
                   = scen.cashflows]_vars

\* The run is over for a three-year horizon with half the investment
\* borrowed: three series of four entries starting with -2200.
C17_Witness ==
    /\ main_pc = "done"
    /\ main_inputs.horizon_years = 3
    /\ main_inputs.debt_ratio = Q(1, 2)
    /\ Len(scenario_results) = 3
    /\ Len(scenario_results[3].value.cashflows) = 4
    /\ scenario_results[3].value.cashflows[1] = Q(-2200, 1)
    /\ Len(scenario_dscr[3].value) = 3

\* What a stored scenario is, computed from the inputs of the run and the
\* scenario's own factors alone.
FromOwnFactors(name, res, rows) ==
    LET y1 == YearOneFigures(main_inputs, res.params, res.revenue)
        h == main_inputs.horizon_years
    IN  /\ res.params = DictGet(scenario_params, name)
        /\ res.results = simulate_annual_revenue(
                             main_room_types,
                             ScenarioSeasons(seasons_base_config, res.params))
        /\ res.revenue = res.results.total_revenue
        /\ res.fixed_costs_effective = y1.fixed_costs_effective
        /\ res.variable_costs_effective = y1.variable_costs_effective
        /\ res.total_costs = y1.total_costs
        /\ res.ebitda_year1 = y1.ebitda_year1
        /\ Len(res.cashflows) = h + 1
        /\ res.cashflows[1] = RNeg(run.equity_amount)
        /\ \A t \in 1..h :
             res.cashflows[t + 1]
                 = YearFigures(main_inputs, run, res.ebitda_year1, t).fcfe_t
        /\ rows = [t \in 1..h |->
                     DscrRow(t, YearFigures(main_inputs, run, res.ebitda_year1, t))]

C21_YearOneCosts ==
    /\ main_pc = "years" =>
         LET cf == scen.params.cost_factor
             variable == RMul(scen.revenue, main_inputs.variable_cost_rate)
         IN  /\ scen.revenue = scen.results.total_revenue
             /\ scen.fixed_costs_effective = RMul(main_inputs.base_fixed_costs, cf)
             /\ scen.variable_costs_effective = RMul(variable, cf)
             /\ scen.total_costs
                    = RMul(RAdd(main_inputs.base_fixed_costs, variable), cf)
             /\ scen.ebitda_year1 = RSub(scen.revenue, scen.total_costs)
    /\ \A i \in 1..Len(scenario_results) :
         LET r == scenario_results[i].value
         IN  /\ r.total_costs
                    = RMul(RAdd(main_inputs.base_fixed_costs,
                                RMul(r.revenue, main_inputs.variable_cost_rate)),
                           r.params.cost_factor)
             /\ r.ebitda_year1 = RSub(r.revenue, r.total_costs)

\* The charges of a scenario with cost factor 1.1 are computed: fixed costs
\* of 100 count for 110, and the total is above the unscaled charges.
C21_Witness ==
    /\ main_pc = "years"
    /\ scen.params.cost_factor = Q(11, 10)
    /\ main_inputs.base_fixed_costs = Q(100, 1)
    /\ scen.fixed_costs_effective = Q(110, 1)
    /\ RLt(Zero, scen.revenue)
    /\ RLt(RAdd(main_inputs.base_fixed_costs,
                RMul(scen.revenue, main_inputs.variable_cost_rate)),
           scen.total_costs)

\* The EBITDA column of a year table grown from ebitda_year1 at rate g.
EbitdaColumnAsClaimed(rows, ebitda_year1, g) ==
    \A t \in 1..Len(rows) :
        /\ t = 1 => rows[t].EBITDA = ebitda_year1
        /\ t > 1 => rows[t].EBITDA = RMul(rows[t - 1].EBITDA, RAdd(One, g))
        /\ rows[t].EBITDA = RMul(ebitda_year1, RPow(RAdd(One, g), t - 1))

\* C22: in every year table, ebitda_t = ebitda_year1 * (1 + growth_rate)^(t-1):
\* the row of year 1 carries ebitda_year1 unchanged and each later row the
\* value of the row before it times (1 + growth_rate).
C22_EbitdaGrowth ==
    /\ main_pc = "years" =>
         /\ EbitdaColumnAsClaimed(scen.dscr_rows, scen.ebitda_year1,
                                  main_inputs.growth_rate)
         /\ scen.year >= 1 => scen.fig.ebitda_t = scen.dscr_rows[scen.year].EBITDA
    /\ \A i \in 1..Len(scenario_dscr) :
         EbitdaColumnAsClaimed(scenario_dscr[i].value,
                               scenario_results[i].value.ebitda_year1,
                               main_inputs.growth_rate)

\* Three years projected at a growth of 50% from an EBITDA of 971: 971, then
\* 1456.5, then 2184.75.
C22_Witness ==
    /\ main_pc = "years"
    /\ main_inputs.growth_rate = Q(1, 2)
    /\ scen.ebitda_year1 = Q(971, 1)
    /\ Len(scen.dscr_rows) = 3
    /\ scen.dscr_rows[1].EBITDA = Q(971, 1)
    /\ scen.dscr_rows[2].EBITDA = Q(2913, 2)
    /\ scen.dscr_rows[3].EBITDA = Q(8739, 4)

\* The tax of a row of the year table, EBITDA - CFADS, is the tax on that
\* row's own EBITDA, less the depreciation dep and the row's interest,
\* floored at 0.
TaxOfRowAsClaimed(row, dep, tax_rate) ==
    LET ebit == RSub(row.EBITDA, dep)
        before_tax == RSub(ebit, row.Interets)
        taxable == IF RLt(before_tax, Zero) THEN Zero ELSE before_tax
        tax == RSub(row.EBITDA, row.CFADS)
    IN  /\ tax = RMul(taxable, tax_rate)
        /\ RLe(Zero, tax)

\* C24: in every projected year ebit_t = ebitda_t - annual_depreciation,
\* taxable_t = max(0, ebit_t - interest_t), tax_t = taxable_t * tax_rate is
\* never negative and cfads_t = ebitda_t - tax_t; the tax of every row of
\* every year table is a function of that row's EBITDA and interest and of
\* the depreciation alone, so that a loss of an earlier year reduces no
\* later tax.
C24_TaxWithoutCarryForward ==
    /\ (main_pc = "years" /\ scen.year >= 1) =>
         LET f == scen.fig
         IN  /\ f.depreciation_t = run.annual_depreciation
             /\ f.ebit_t = RSub(f.ebitda_t, run.annual_depreciation)
             /\ f.taxable_t = IF RLt(RSub(f.ebit_t, f.interest_t), Zero) THEN Zero
                              ELSE RSub(f.ebit_t, f.interest_t)
             /\ RLe(Zero, f.taxable_t)
             /\ f.tax_t = RMul(f.taxable_t, main_inputs.tax_rate)
             /\ RLe(Zero, f.tax_t)
             /\ f.cfads_t = RSub(f.ebitda_t, f.tax_t)
             /\ scen.dscr_rows[scen.year].CFADS = f.cfads_t
    /\ \A t \in 1..Len(scen.dscr_rows) :
         main_pc = "years" =>
             TaxOfRowAsClaimed(scen.dscr_rows[t], run.annual_depreciation,
                               main_inputs.tax_rate)
    /\ \A i \in 1..Len(scenario_dscr) :
         \A t \in 1..Len(scenario_dscr[i].value) :
             TaxOfRowAsClaimed(scenario_dscr[i].value[t], run.annual_depreciation,
                               main_inputs.tax_rate)

\* Without debt and with a depreciation of 1100: year 1 closes at a loss of
\* 129 and pays no tax, year 2 earns 356.5 and pays 20% of all of it, 71.3.
C24_Witness ==
    /\ main_pc = "years"
    /\ scen.year = 2
    /\ run.annual_depreciation = Q(1100, 1)
    /\ scen.dscr_rows[1].EBITDA = Q(971, 1)
    /\ scen.dscr_rows[1].Interets = Zero
    /\ scen.dscr_rows[1].CFADS = scen.dscr_rows[1].EBITDA
    /\ scen.fig.taxable_t = Q(713, 2)
    /\ scen.fig.tax_t = Q(713, 10)

\* The net proceeds of a sale in the year of the row: EBITDA times the exit
\* multiple, less the exit costs, less the debt remaining in that year.
SaleOfRowAsClaimed(row, inp) ==
    RSub(RMul(RMul(row.EBITDA, inp.exit_multiple), RSub(One, inp.exit_cost_rate)),
         row.Dette_restante)

\* Entry t + 1 of a cash-flow series exceeds CFADS less debt service of year
\* t by the sale proceeds when t is the horizon, and by nothing otherwise.
SaleInLastYearOnly(cfs, rows, inp) ==
    \A t \in 1..Len(rows) :
        LET extra == RSub(cfs[t + 1], RSub(rows[t].CFADS, rows[t].Debt_service))
        IN  /\ t = inp.horizon_years => extra = SaleOfRowAsClaimed(rows[t], inp)
            /\ t # inp.horizon_years => extra = Zero

\* C25: the terminal sale is added to the cash flow of year horizon_years and
\* of no other year: there fcfe_t is net_income_t + depreciation_t -
\* principal_t plus net_sale = ebitda_t * exit_multiple * (1 - exit_cost_rate)
\* - remaining_debt_t, with remaining_debt_t the debt of that same year (the
\* balance of the schedule row when the loan outlasts the horizon); in every
\* other year nothing is added.
C25_TerminalSaleInLastYear ==
    /\ (main_pc = "years" /\ scen.year >= 1) =>
         LET f == scen.fig
             yr == scen.year
             before_sale == RSub(RAdd(f.net_income_t, f.depreciation_t), f.principal_t)
             sale == RSub(RMul(RMul(f.ebitda_t, main_inputs.exit_multiple),
                               RSub(One, main_inputs.exit_cost_rate)),
                          f.remaining_debt_t)
         IN  /\ yr = main_inputs.horizon_years => f.fcfe_t = RAdd(before_sale, sale)
             /\ yr # main_inputs.horizon_years => f.fcfe_t = before_sale
             /\ yr <= Len(run.amort_schedule)
                  => f.remaining_debt_t = run.amort_schedule[yr].remaining
             /\ scen.cashflows[yr + 1] = f.fcfe_t
             /\ SaleInLastYearOnly(scen.cashflows, scen.dscr_rows, main_inputs)
    /\ \A i \in 1..Len(scenario_results) :
         SaleInLastYearOnly(scenario_results[i].value.cashflows,
                            scenario_dscr[i].value, main_inputs)

\* A horizon of one year on a two-year loan: the sale of year 1 brings
\* 971 * 8 * 0.9 less the 1200 still owed, 5791.2.
C25_Witness ==
    /\ main_pc = "years"
    /\ main_inputs.horizon_years = 1
    /\ scen.year = 1
    /\ Len(run.amort_schedule) = 2
    /\ scen.fig.ebitda_t = Q(971, 1)
    /\ scen.fig.remaining_debt_t = Q(1200, 1)
    /\ scen.fig.net_sale = Q(28956, 5)
    /\ scen.cashflows[2]
          = RAdd(RSub(scen.fig.cfads_t, scen.fig.debt_service_t), Q(28956, 5))

\* The third and last year of a horizon beyond the loan term: the earlier
\* entries of the series carry no sale, the last one does.
C25_LastOfThree ==
    /\ main_pc = "years"
    /\ main_inputs.horizon_years = 3
    /\ scen.year = 3
    /\ scen.fig.remaining_debt_t = Zero
    /\ RLt(Zero, scen.fig.net_sale)
    /\ scen.cashflows[3]
          = RSub(scen.dscr_rows[2].CFADS, scen.dscr_rows[2].Debt_service)
    /\ RLt(RSub(scen.dscr_rows[3].CFADS, scen.dscr_rows[3].Debt_service),
           scen.cashflows[4])

\* C29: in every projected year other than the terminal one, fcfe_t =
\* cfads_t - debt_service_t = ebitda_t - tax_t - interest_t - principal_t,
\* within the loan term and after it; every row of the schedule has
\* payment = interest + principal, every row of a year table has a debt
\* service of interest plus principal, and every stored entry of a
\* non-terminal year is CFADS less debt service.
C29_FcfeIsCfadsLessDebtService ==
    /\ \A k \in 1..Len(run.amort_schedule) :
         run.amort_schedule[k].payment
             = RAdd(run.amort_schedule[k].interest, run.amort_schedule[k].principal)
    /\ (main_pc = "years" /\ scen.year >= 1
                          /\ scen.year # main_inputs.horizon_years) =>
         LET f == scen.fig
         IN  /\ f.fcfe_t = RSub(f.cfads_t, f.debt_service_t)
             /\ f.fcfe_t = RSub(RSub(RSub(f.ebitda_t, f.tax_t), f.interest_t),
                                f.principal_t)
             /\ f.net_income_t = RSub(RSub(RSub(f.ebitda_t, f.depreciation_t),
                                           f.interest_t), f.tax_t)
    /\ \A i \in 1..Len(scenario_results) :
         \A t \in 1..Len(scenario_dscr[i].value) :
             LET row == scenario_dscr[i].value[t]
             IN  /\ row.Debt_service = RAdd(row.Interets, row.Principal)
                 /\ t # main_inputs.horizon_years
                      => scenario_results[i].value.cashflows[t + 1]
                            = RSub(RSub(row.CFADS, row.Interets), row.Principal)

\* Year 1 of three, within a two-year loan served 1440 a year, with a tax
\* and a depreciation charged: the cash flow is CFADS less 1440.
C29_Witness ==
    /\ main_pc = "years"
    /\ main_inputs.horizon_years = 3
    /\ scen.year = 1
    /\ scen.fig.debt_service_t = Q(1440, 1)
    /\ RLt(Zero, scen.fig.tax_t)
    /\ RLt(Zero, scen.fig.depreciation_t)
    /\ scen.fig.fcfe_t = RSub(scen.fig.cfads_t, Q(1440, 1))

\* Year 2 of three, after a one-year loan was repaid: no debt service, the
\* cash flow is the CFADS.
C29_AfterLoanTerm ==
    /\ main_pc = "years"
    /\ main_inputs.horizon_years = 3
    /\ Len(run.amort_schedule) = 1
    /\ scen.year = 2
    /\ scen.fig.debt_service_t = Zero
    /\ RLt(Zero, scen.fig.tax_t)
    /\ scen.fig.fcfe_t = scen.fig.cfads_t

\* C30: the depreciation charged by the projection in the years 1..t
\* (annual_depreciation in each of them) never adds up to more than the
\* amortizable base total_investment * amortizable_share, and is the
\* accumulated depreciation of the balance sheet of year t. Violated by a
\* horizon longer than deprec_years: with deprec_years = 2 the third year
\* brings the charges to 3300 for a base of 2200.
C30_DepreciationWithinBase ==
    (main_pc = "years" /\ scen.year >= 1) =>
        LET charged == RSum([t \in 1..scen.year |-> run.annual_depreciation])
        IN  /\ scen.fig.depreciation_t = run.annual_depreciation
            /\ run.amortizable_base
                   = RMul(main_inputs.total_investment, main_inputs.amortizable_share)
            /\ RLe(charged, run.amortizable_base)
            /\ charged = DepAccum(run.annual_depreciation, scen.year,
                                  main_inputs.deprec_years)

----------------------------------------------------------------------------
(* Property of a repeated run, checked under SpecRerun.                    *)

----------------------------------------------------------------------------
(* Property of the ConfigLoader, checked under SpecConfig.                 *)

\* The key paths of the leaves of a dict, and those of its nested dicts.
RECURSIVE LeafPaths(_)
LeafPaths(d) ==
    UNION { IF d[i].value.is_dict
            THEN {<<d[i].key>> \o p : p \in LeafPaths(d[i].value.items)}
            ELSE {<<d[i].key>>} : i \in 1..Len(d) }

RECURSIVE DictPaths(_)
DictPaths(d) ==
    UNION { IF d[i].value.is_dict
            THEN {<<d[i].key>>}
                     \cup {<<d[i].key>> \o p : p \in DictPaths(d[i].value.items)}
            ELSE {} : i \in 1..Len(d) }

\* Whether d has something under the key path p, and what.
RECURSIVE HasPath(_, _)
HasPath(d, p) ==
    /\ DictHas(d, p[1])
    /\ Len(p) > 1 => /\ DictGet(d, p[1]).is_dict
                     /\ HasPath(DictGet(d, p[1]).items, Tail(p))

RECURSIVE NodeAt(_, _)
NodeAt(d, p) ==
    IF Len(p) = 1 THEN DictGet(d, p[1]) ELSE NodeAt(DictGet(d, p[1]).items, Tail(p))

\* C26: deep_update(defaults, loaded) is a recursive overlay. Every key path
\* of a value of the loaded configuration carries that value in the result;
\* every key path of a default value the loaded configuration does not
\* supply keeps the default value, nested records being merged and not
\* replaced; the result holds nothing else, and it has every record of
\* get_default_config() at its place. The loaded configuration is left as
\* it was.
C26_DeepUpdateOverlays ==
    cfg_pc = "returned" =>
        /\ \A p \in LeafPaths(cfg) :
              /\ HasPath(final_cfg, p)
              /\ NodeAt(final_cfg, p) = NodeAt(cfg, p)
        /\ \A p \in LeafPaths(DefaultConfig) \ LeafPaths(cfg) :
              /\ HasPath(final_cfg, p)
              /\ NodeAt(final_cfg, p) = NodeAt(DefaultConfig, p)
        /\ LeafPaths(final_cfg) = LeafPaths(DefaultConfig) \cup LeafPaths(cfg)
        /\ \A p \in DictPaths(DefaultConfig) \cup DictPaths(cfg) :
              /\ HasPath(final_cfg, p)
              /\ NodeAt(final_cfg, p).is_dict
        /\ cfg \in LoadedConfigs
        /\ base_cfg = final_cfg

\* A file that gives the winter season 60 days and one room, "premium", and
\* a tax rate: the result has the loaded days, the loaded room, the default
\* room "dortoir" beside it, the loaded tax rate, the default depreciation
\* period and the default scenarios.
C26_Witness ==
    /\ cfg_pc = "returned"
    /\ HasPath(cfg, <<"seasons", "hiver", "rooms", "premium">>)
    /\ ~HasPath(cfg, <<"seasons", "hiver", "rooms", "dortoir">>)
    /\ ~HasPath(cfg, <<"scenarios">>)
    /\ NodeAt(final_cfg, <<"seasons", "hiver", "days">>) = Leaf(6000)
    /\ NodeAt(final_cfg, <<"seasons", "hiver", "rooms", "premium", "occupancy_base">>)
          = Leaf(70)
    /\ NodeAt(final_cfg, <<"seasons", "hiver", "rooms", "dortoir", "occupancy_base">>)
          = Leaf(90)
    /\ NodeAt(final_cfg, <<"fiscalite_comptable", "tax_rate">>) = Leaf(30)
    /\ NodeAt(final_cfg, <<"fiscalite_comptable", "deprec_years">>) = Leaf(2500)
    /\ NodeAt(final_cfg, <<"scenarios">>) = NodeAt(DefaultConfig, <<"scenarios">>)

============================================================================
